---- MODULE Spec2Model ----
(***************************************************************************)
(* The receipt-field extraction engine of src/services/ocr.js: OCR text    *)
(* in, ReceiptFields out; and the capture flow of components/Capture.jsx   *)
(* that calls it, with the permission check of App.jsx.                    *)
(*                                                                         *)
(* A JavaScript string is modelled as a sequence of one-character strings, *)
(* so "" is << >> and every regular expression of the source is modelled   *)
(* by a matcher over the characters that follows the engine's leftmost,    *)
(* greedy, backtracking semantics.                                         *)
(***************************************************************************)
EXTENDS Integers, Sequences, FiniteSets, Bags, TLC

\* the state of a call of analyzeImage
VARIABLES pc, textDetections, today, result, error

\* the state of the Capture component (its useState values), the handlers
\* of it that await something, the permissions the system holds for the
\* app, and the position of App's initPermissions
VARIABLES step, image, formData, analysisData, isSubmitting, errorMsg,
          errorType, handlers, permissions, appPc

ocrVars == <<pc, textDetections, today, result, error>>

captureVars == <<step, image, formData, analysisData, isSubmitting, errorMsg,
                 errorType, handlers, permissions, appPc>>

vars == <<pc, textDetections, today, result, error, step, image, formData,
          analysisData, isSubmitting, errorMsg, errorType, handlers,
          permissions, appPc>>

(***************************************************************************)
(* Characters and character classes                                        *)
(***************************************************************************)
Uppers == <<"A","B","C","D","E","F","G","H","I","J","K","L","M",
            "N","O","P","Q","R","S","T","U","V","W","X","Y","Z">>

Lowers == <<"a","b","c","d","e","f","g","h","i","j","k","l","m",
            "n","o","p","q","r","s","t","u","v","w","x","y","z">>

UpperSet == {Uppers[i] : i \in 1..26}

LowerSet == {Lowers[i] : i \in 1..26}

LowerOf == [c \in UpperSet |-> Lowers[CHOOSE i \in 1..26 : Uppers[i] = c]]

UpperOf == [c \in LowerSet |-> Uppers[CHOOSE i \in 1..26 : Lowers[i] = c]]

DigitVal == [c \in {"0","1","2","3","4","5","6","7","8","9"} |->
               CASE c = "0" -> 0 [] c = "1" -> 1 [] c = "2" -> 2 [] c = "3" -> 3
                 [] c = "4" -> 4 [] c = "5" -> 5 [] c = "6" -> 6 [] c = "7" -> 7
                 [] c = "8" -> 8 [] c = "9" -> 9]

\* \d
IsDigit(c) == c \in DOMAIN DigitVal

\* \s (and what String.prototype.trim removes)
IsSpace(c) == c \in {" ", "\t", "\n", "\r"}

\* \w
IsWordChar(c) == IsDigit(c) \/ c \in UpperSet \/ c \in LowerSet \/ c = "_"

\* [.,]
IsSep(c) == c \in {".", ","}

\* [/-]
IsDateSep(c) == c \in {"/", "-"}

charToLower(c) == IF c \in UpperSet THEN LowerOf[c] ELSE c

charToUpper(c) == IF c \in LowerSet THEN UpperOf[c] ELSE c

\* String.prototype.toLowerCase
toLowerCase(s) == [i \in 1..Len(s) |-> charToLower(s[i])]

\* String.prototype.includes
includes(s, kw) ==
    \E i \in 0..(Len(s) - Len(kw)) : \A j \in 1..Len(kw) : s[i + j] = kw[j]

\* a literal of a regular expression with the i flag, matched at position p
LiteralAtCI(s, p, lit) ==
    /\ p + Len(lit) - 1 <= Len(s)
    /\ \A j \in 1..Len(lit) : charToUpper(s[p + j - 1]) = charToUpper(lit[j])

\* \d{n} at position p
DigitsAt(s, p, n) ==
    /\ p + n - 1 <= Len(s)
    /\ \A j \in 0..(n - 1) : IsDigit(s[p + j])

\* greedy \s* from position p: the position after the white space
RECURSIVE SkipSpaces(_, _)
SkipSpaces(s, p) ==
    IF p <= Len(s) /\ IsSpace(s[p]) THEN SkipSpaces(s, p + 1) ELSE p

SetMax(S) == CHOOSE x \in S : \A y \in S : y <= x

SetMin(S) == CHOOSE x \in S : \A y \in S : x <= y

\* s.replace(/,/g, '')
StripCommas(s) == SelectSeq(s, LAMBDA c : c # ",")

(***************************************************************************)
(* extractAmount                                                           *)
(***************************************************************************)
\* the cue alternatives of amountRegex, in the order the engine tries them
AmountCues == << <<"R","S">>, <<"I","N","R">>, <<"₹">>,
                 <<"T","O","T","A","L">>, <<"A","M","O","U","N","T">>,
                 <<"A","M","T">> >>

\* (?:[.,]\d{3})* from position p: the largest number of groups present
RECURSIVE MaxGroups(_, _)
MaxGroups(s, p) ==
    IF p <= Len(s) /\ IsSep(s[p]) /\ DigitsAt(s, p + 1, 3)
    THEN 1 + MaxGroups(s, p + 4)
    ELSE 0

\* \d{1,3}(?:[.,]\d{3})*(?:[.,]\d{2}) at position p: the position after the
\* match the backtracking engine finds first (most leading digits, then most
\* groups), 0 when there is none
NumberEnd(s, p) ==
    LET ok(n, k) == /\ DigitsAt(s, p, n)
                    /\ k <= MaxGroups(s, p + n)
                    /\ p + n + 4 * k <= Len(s)
                    /\ IsSep(s[p + n + 4 * k])
                    /\ DigitsAt(s, p + n + 4 * k + 1, 2)
        ks(n) == {k \in 0..MaxGroups(s, p + n) : ok(n, k)}
        ns    == {n \in 1..3 : DigitsAt(s, p, n) /\ ks(n) # {}}
    IN  IF ns = {} THEN 0
        ELSE LET n == SetMax(ns) IN p + n + 4 * SetMax(ks(n)) + 3

\* amountRegex at position p with cue number c: <<from, to>> of capture
\* group 1, << >> when it does not match
AmountMatchWithCue(s, p, c) ==
    IF ~LiteralAtCI(s, p, AmountCues[c]) THEN << >>
    ELSE LET a == SkipSpaces(s, p + Len(AmountCues[c]))
             b == IF a <= Len(s) /\ s[a] \in {":", "="} THEN a + 1 ELSE a
             n == SkipSpaces(s, b)
             e == NumberEnd(s, n)
         IN  IF e = 0 THEN << >> ELSE <<n, e - 1>>

AmountMatchAt(s, p) ==
    LET cs == {c \in 1..Len(AmountCues) : AmountMatchWithCue(s, p, c) # << >>}
    IN  IF cs = {} THEN << >> ELSE AmountMatchWithCue(s, p, SetMin(cs))

\* [...text.matchAll(amountRegex)] searched from position p: capture group 1
\* of every match, in order; a search resumes where the last match ended
RECURSIVE matchAllAmount(_, _)
matchAllAmount(s, p) ==
    IF p > Len(s) THEN << >>
    ELSE LET m == AmountMatchAt(s, p)
         IN  IF m = << >> THEN matchAllAmount(s, p + 1)
             ELSE <<SubSeq(s, m[1], m[2])>> \o matchAllAmount(s, m[2] + 1)

\* priceRegex \b\d{1,5}[.,]\d{2}\b at position p: the position of the last
\* character of the match, 0 when it does not match
PriceMatchEnd(s, p) ==
    LET ok(n) == /\ DigitsAt(s, p, n)
                 /\ p + n <= Len(s)
                 /\ IsSep(s[p + n])
                 /\ DigitsAt(s, p + n + 1, 2)
                 /\ (p + n + 3 > Len(s) \/ ~IsWordChar(s[p + n + 3]))
        ns    == {n \in 1..5 : ok(n)}
    IN  IF p > 1 /\ IsWordChar(s[p - 1]) THEN 0
        ELSE IF ns = {} THEN 0
        ELSE p + SetMax(ns) + 2

\* text.match(priceRegex) searched from position p (<< >> models null)
RECURSIVE matchPrices(_, _)
matchPrices(s, p) ==
    IF p > Len(s) THEN << >>
    ELSE LET e == PriceMatchEnd(s, p)
         IN  IF e = 0 THEN matchPrices(s, p + 1)
             ELSE <<SubSeq(s, p, e)>> \o matchPrices(s, e + 1)

\* the value of a run of digits
RECURSIVE DigitsValue(_)
DigitsValue(s) ==
    IF s = << >> THEN 0
    ELSE 10 * DigitsValue(SubSeq(s, 1, Len(s) - 1)) + DigitVal[s[Len(s)]]

\* the length of the run of digits that starts s
RECURSIVE DigitRun(_, _)
DigitRun(s, p) ==
    IF p <= Len(s) /\ IsDigit(s[p]) THEN 1 + DigitRun(s, p + 1) ELSE 0

\* parseFloat of a string ddd or ddd.dd, in hundredths (parseFloat reads the
\* longest prefix that is a number; the strings it is given here hold digits
\* and at most one '.', followed by exactly two digits)
parseFloat100(s) ==
    LET i == DigitRun(s, 1)
        f == IF i + 1 <= Len(s) /\ s[i + 1] = "." THEN DigitRun(s, i + 2) ELSE 0
        frac == SubSeq(s, i + 2, i + 1 + (IF f > 2 THEN 2 ELSE f))
    IN  100 * DigitsValue(SubSeq(s, 1, i))
          + (IF f = 0 THEN 0
             ELSE IF f = 1 THEN 10 * DigitsValue(frac)
             ELSE DigitsValue(frac))

\* prices.reduce((max, curr) => ...) without an initial value
RECURSIVE reducePrices(_, _, _)
reducePrices(prices, i, max) ==
    IF i > Len(prices) THEN max
    ELSE LET curr == prices[i]
             val  == parseFloat100(StripCommas(curr))
         IN  reducePrices(prices, i + 1,
                 IF val > parseFloat100(StripCommas(max)) THEN curr ELSE max)

\* the TypeError a call raises ("Reduce of empty array with no initial value")
TypeError == <<"TypeError">>

\* Array.prototype.reduce without an initial value: it raises on an array
\* without elements, otherwise the first element is the first max
reduce(prices) ==
    IF Len(prices) = 0 THEN TypeError ELSE reducePrices(prices, 2, prices[1])

\* .replace(/,/g, '') on what reduce returned; what reduce raised goes on up
replaceAfter(reduced) ==
    IF reduced = TypeError THEN TypeError ELSE StripCommas(reduced)

\* a body that reduces whatever priceRegex matched, without asking first
\* whether it matched at all
amountOf_Unguarded(matches, prices) ==
    IF Len(matches) > 0
    THEN StripCommas(matches[Len(matches)])
    ELSE replaceAfter(reduce(prices))

\* the body of extractAmount, given what the two regular expressions matched
\* (prices is << >> for the null of a match without result)
amountOf(matches, prices) ==
    IF Len(matches) > 0
    THEN StripCommas(matches[Len(matches)])
    ELSE IF prices # << >>
    THEN replaceAfter(reduce(prices))
    ELSE << >>

extractAmount(text) == amountOf(matchAllAmount(text, 1), matchPrices(text, 1))

(***************************************************************************)
(* The extractAmount whose fallback sorts ("REGEX FIXED BELOW")            *)
(***************************************************************************)
\* prices.map(p => p.replace(/,/g, ''))
RECURSIVE mapStripCommas(_)
mapStripCommas(prices) ==
    IF prices = << >> THEN << >>
    ELSE <<StripCommas(Head(prices))>> \o mapStripCommas(Tail(prices))

\* a comparison that puts b before a when their values are equal as well
comesBefore_OrEqual(b, a) == parseFloat100(b) >= parseFloat100(a)

\* the comparator (a, b) => parseFloat(b) - parseFloat(a) is positive: b
\* comes before a
comesBefore(b, a) == parseFloat100(b) > parseFloat100(a)

\* sorted with x put in: before the first element it comes before, so after
\* the elements it is equal to (Array.prototype.sort is stable)
RECURSIVE insertSorted(_, _)
insertSorted(sorted, x) ==
    IF sorted = << >> THEN <<x>>
    ELSE IF comesBefore(x, Head(sorted)) THEN <<x>> \o sorted
    ELSE <<Head(sorted)>> \o insertSorted(Tail(sorted), x)

\* array.sort(comparator), the elements from position i on put into sorted
RECURSIVE sortFrom(_, _, _)
sortFrom(array, i, sorted) ==
    IF i > Len(array) THEN sorted
    ELSE sortFrom(array, i + 1, insertSorted(sorted, array[i]))

sort(array) == sortFrom(array, 1, << >>)

\* the body of this extractAmount, given what the two regular expressions
\* matched
amountOfSorted(matches, prices) ==
    IF Len(matches) > 0
    THEN StripCommas(matches[Len(matches)])
    ELSE IF prices = << >> THEN << >>
    ELSE sort(mapStripCommas(prices))[1]

extractAmountSorted(text) ==
    amountOfSorted(matchAllAmount(text, 1), matchPrices(text, 1))

(***************************************************************************)
(* extractDate                                                             *)
(***************************************************************************)
\* what extractDate returns when dateRegex does not match
null == <<"null">>

\* the lengths <<a, b, c>> of three digit groups separated by [/-] at position
\* p, the groups having lengths in A, B and C: the choice the backtracking
\* engine finds first (each quantifier as long as possible, leftmost first),
\* << >> when there is none
DateShapeAt(s, p, a, b, c) ==
    /\ DigitsAt(s, p, a)
    /\ p + a <= Len(s)
    /\ IsDateSep(s[p + a])
    /\ DigitsAt(s, p + a + 1, b)
    /\ p + a + 1 + b <= Len(s)
    /\ IsDateSep(s[p + a + 1 + b])
    /\ DigitsAt(s, p + a + b + 2, c)

DateGroupsAt(s, p, A, B, C) ==
    LET shapes == {g \in A \X B \X C : DateShapeAt(s, p, g[1], g[2], g[3])}
        first(g) == \A h \in shapes :
                       \/ g[1] > h[1]
                       \/ g[1] = h[1] /\ g[2] > h[2]
                       \/ g[1] = h[1] /\ g[2] = h[2] /\ g[3] >= h[3]
    IN  IF ~DigitsAt(s, p, 1) THEN << >>   \* every shape starts with a digit
        ELSE IF shapes = {} THEN << >>
        ELSE CHOOSE g \in shapes : first(g)

\* (\d{1,2})[/-](\d{1,2})[/-](\d{2,4}), the first alternative of dateRegex
DayFirstAt(s, p) == DateGroupsAt(s, p, 1..2, 1..2, 2..4)

\* (\d{4})[/-](\d{1,2})[/-](\d{1,2}), the second alternative of dateRegex
YearFirstAt(s, p) == DateGroupsAt(s, p, {4}, 1..2, 1..2)

\* the three captures of a match at position p whose groups have lengths g
DateCaptures(s, p, g) ==
    << SubSeq(s, p, p + g[1] - 1),
       SubSeq(s, p + g[1] + 1, p + g[1] + g[2]),
       SubSeq(s, p + g[1] + g[2] + 2, p + g[1] + g[2] + g[3] + 1) >>

\* text.match(dateRegex) searched from position p: the leftmost position at
\* which an alternative matches, the first alternative tried first there
\* a search that looks for the year-first shape in the whole text before it
\* looks for the day-first shape
matchDate_YearFirstAnywhere(s, p) ==
    LET ys == {i \in p..Len(s) : YearFirstAt(s, i) # << >>}
        ds == {i \in p..Len(s) : DayFirstAt(s, i) # << >>}
    IN  IF ys # {}
        THEN [found |-> TRUE, dayFirst |-> FALSE, index |-> SetMin(ys),
              groups |-> DateCaptures(s, SetMin(ys), YearFirstAt(s, SetMin(ys)))]
        ELSE IF ds # {}
        THEN [found |-> TRUE, dayFirst |-> TRUE, index |-> SetMin(ds),
              groups |-> DateCaptures(s, SetMin(ds), DayFirstAt(s, SetMin(ds)))]
        ELSE [found |-> FALSE]

RECURSIVE matchDate(_, _)
matchDateAt(s, p, dayFirst, yearFirst) ==
    IF dayFirst # << >>
    THEN [found |-> TRUE, dayFirst |-> TRUE, index |-> p,
          groups |-> DateCaptures(s, p, dayFirst)]
    ELSE IF yearFirst # << >>
    THEN [found |-> TRUE, dayFirst |-> FALSE, index |-> p,
          groups |-> DateCaptures(s, p, yearFirst)]
    ELSE matchDate(s, p + 1)

matchDate(s, p) ==
    IF p > Len(s) THEN [found |-> FALSE]
    ELSE matchDateAt(s, p, DayFirstAt(s, p), YearFirstAt(s, p))

\* s.padStart(2, '0')
padStart2(s) == IF Len(s) >= 2 THEN s ELSE IF Len(s) = 1 THEN <<"0">> \o s
                ELSE <<"0", "0">>

\* a conversion that reads the first shape as month-day-year
dateOf_MonthFirst(match) ==
    IF ~match.found THEN null
    ELSE IF match.dayFirst
    THEN (IF Len(match.groups[3]) = 2 THEN <<"2", "0">> \o match.groups[3]
          ELSE match.groups[3])
         \o <<"-">> \o padStart2(match.groups[1])
         \o <<"-">> \o padStart2(match.groups[2])
    ELSE match.groups[1] \o <<"-">> \o padStart2(match.groups[2])
         \o <<"-">> \o padStart2(match.groups[3])

\* the body of extractDate, given what dateRegex matched
dateOf(match) ==
    IF ~match.found THEN null
    ELSE IF match.dayFirst
    THEN LET d == padStart2(match.groups[1])
             m == padStart2(match.groups[2])
             y == IF Len(match.groups[3]) = 2
                  THEN <<"2", "0">> \o match.groups[3]
                  ELSE match.groups[3]
         IN  y \o <<"-">> \o m \o <<"-">> \o d
    ELSE LET y == match.groups[1]
             m == padStart2(match.groups[2])
             d == padStart2(match.groups[3])
         IN  y \o <<"-">> \o m \o <<"-">> \o d

extractDate(text) == dateOf(matchDate(text, 1))

(***************************************************************************)
(* extractCategory                                                         *)
(***************************************************************************)
\* the categories object, in the order Object.entries lists its keys
categories == <<
    [cat |-> "FOOD", keywords |-> <<
        <<"f","o","o","d">>,
        <<"r","e","s","t","a","u","r","a","n","t">>,
        <<"c","a","f","e">>,
        <<"s","w","i","g","g","y">>,
        <<"z","o","m","a","t","o">>,
        <<"e","a","t">>,
        <<"l","u","n","c","h">>,
        <<"d","i","n","n","e","r">>,
        <<"b","u","r","g","e","r">>,
        <<"p","i","z","z","a">>,
        <<"b","i","r","y","a","n","i">> >>],
    [cat |-> "TRAVEL", keywords |-> <<
        <<"u","b","e","r">>,
        <<"o","l","a">>,
        <<"t","a","x","i">>,
        <<"c","a","b">>,
        <<"m","e","t","r","o">>,
        <<"a","u","t","o">>,
        <<"t","r","a","i","n">>,
        <<"f","l","i","g","h","t">>,
        <<"b","u","s">>,
        <<"f","u","e","l">>,
        <<"p","e","t","r","o","l">>,
        <<"d","i","e","s","e","l">> >>],
    [cat |-> "GROCERY", keywords |-> <<
        <<"g","r","o","c","e","r","y">>,
        <<"d","m","a","r","t">>,
        <<"m","a","r","k","e","t">>,
        <<"m","i","l","k">>,
        <<"v","e","g","e","t","a","b","l","e","s">>,
        <<"k","i","r","a","n","a">>,
        <<"m","a","r","t">>,
        <<"s","t","o","r","e">>,
        <<"m","a","n","d","i">> >>],
    [cat |-> "HOTEL", keywords |-> <<
        <<"h","o","t","e","l">>,
        <<"l","o","d","g","e">>,
        <<"r","e","s","o","r","t">>,
        <<"s","t","a","y">>,
        <<"i","n","n">> >>],
    [cat |-> "ROOM STAY", keywords |-> <<
        <<"r","e","n","t">>,
        <<"p","g">>,
        <<"h","o","s","t","e","l">>,
        <<"a","c","c","o","m","m","o","d","a","t","i","o","n">> >>] >>

\* keywords.some((kw) => lowercaseText.includes(kw))
someKeyword(lowercaseText, keywords) ==
    \E k \in 1..Len(keywords) : includes(lowercaseText, keywords[k])

\* a loop in which the last category with a keyword wins
firstCategory_LastWins(lowercaseText, i) ==
    LET hits == {k \in i..Len(categories) :
                    someKeyword(lowercaseText, categories[k].keywords)}
    IN  IF hits = {} THEN "Other" ELSE categories[SetMax(hits)].cat

\* the for loop over Object.entries(categories), from entry i on
RECURSIVE firstCategory(_, _)
firstCategory(lowercaseText, i) ==
    IF i > Len(categories) THEN "Other"
    ELSE IF someKeyword(lowercaseText, categories[i].keywords)
    THEN categories[i].cat
    ELSE firstCategory(lowercaseText, i + 1)

extractCategory(text) == firstCategory(toLowerCase(text), 1)

\* FORM_CONFIG.categories, the options of the form's category selector
FormCategories == {"HOTEL", "TRAVEL", "FOOD", "TOUR", "ROOM STAY", "GLOCERY", "Other"}

(***************************************************************************)
(* extractMerchant                                                         *)
(***************************************************************************)
\* text.split('\n'), the line that starts at position p first
RECURSIVE splitLines(_, _)
splitLines(s, p) ==
    LET ends == {i \in p..Len(s) : s[i] = "\n"}
    IN  IF ends = {} THEN <<SubSeq(s, p, Len(s))>>
        ELSE <<SubSeq(s, p, SetMin(ends) - 1)>> \o splitLines(s, SetMin(ends) + 1)

\* trim that leaves the string as it is
trim_Identity(s) == s

\* String.prototype.trim
trim(s) ==
    LET keep == {i \in 1..Len(s) : ~IsSpace(s[i])}
    IN  IF keep = {} THEN << >> ELSE SubSeq(s, SetMin(keep), SetMax(keep))

commonMerchants == <<
    <<"G","P","a","y">>,
    <<"P","h","o","n","e","P","e">>,
    <<"P","a","y","t","m">>,
    <<"A","m","a","z","o","n">>,
    <<"F","l","i","p","k","a","r","t">>,
    <<"J","i","o">>,
    <<"Z","o","m","a","t","o">>,
    <<"S","w","i","g","g","y">>,
    <<"U","b","e","r">>,
    <<"O","l","a">>,
    <<"D","-","M","a","r","t">>,
    <<"R","e","l","i","a","n","c","e">> >>

\* the lines the merchant loop looks at
MerchantLines == 5

\* /d{10}/.test(line): the expression as the source has it, a run of this
\* many letters d
PhoneRunLength == 10

looksLikePhone(line) ==
    \E i \in 0..(Len(line) - PhoneRunLength) :
        \A j \in 1..PhoneRunLength : line[i + j] = "d"

\* split, trim and filter of extractMerchant
merchantLines(text) ==
    LET raw == splitLines(text, 1)
        trimmed == [i \in 1..Len(raw) |-> trim(raw[i])]
    IN  SelectSeq(trimmed, LAMBDA l : Len(l) > 2)

isKnownMerchantLine(line) ==
    /\ \E k \in 1..Len(commonMerchants) :
           includes(toLowerCase(line), toLowerCase(commonMerchants[k]))
    /\ ~looksLikePhone(line)

\* Math.min(a, b)
min(a, b) == IF a < b THEN a ELSE b

\* the for loop of extractMerchant from index i on (i counts from 1), then
\* the fallback to the first line
RECURSIVE merchantFrom(_, _)
merchantFrom(lines, i) ==
    IF i > min(Len(lines), MerchantLines) THEN lines[1]
    ELSE IF isKnownMerchantLine(lines[i]) THEN lines[i]
    ELSE merchantFrom(lines, i + 1)

\* the body of extractMerchant, given the lines that were kept
merchantOf(lines) == IF Len(lines) = 0 THEN << >> ELSE merchantFrom(lines, 1)

extractMerchant(text) == merchantOf(merchantLines(text))

(***************************************************************************)
(* extractInvoiceNumber                                                    *)
(***************************************************************************)
\* the cue alternatives of invoiceRegex, in the order the engine tries them
InvoiceCues == << <<"I","N","V">>, <<"I","N","V","O","I","C","E">>,
                  <<"B","I","L","L">>, <<"T","X","N">>,
                  <<"T","R","A","N","S","A","C","T","I","O","N">>,
                  <<"R","E","C","E","I","P","T">>, <<"R","E","F">> >>

\* the alternatives of the optional group (?:NO|ID|NUMBER)?, in the order the
\* engine tries them: the three words, then nothing
InvoiceWords == << <<"N","O">>, <<"I","D">>, <<"N","U","M","B","E","R">>, << >> >>

\* [A-Z0-9/-] under the i flag
IsRefChar(c) == c \in UpperSet \/ c \in LowerSet \/ IsDigit(c) \/ c \in {"/", "-"}

\* the length of the run of reference characters at position p
RECURSIVE RefRun(_, _)
RefRun(s, p) ==
    IF p <= Len(s) /\ IsRefChar(s[p]) THEN 1 + RefRun(s, p + 1) ELSE 0

\* invoiceRegex at position p with cue c and word w: <<from, to>> of capture
\* group 1, << >> when it does not match
InvoiceMatchWith(s, p, c, w) ==
    IF ~LiteralAtCI(s, p, InvoiceCues[c]) THEN << >>
    ELSE LET a == SkipSpaces(s, p + Len(InvoiceCues[c]))
         IN  IF ~LiteralAtCI(s, a, InvoiceWords[w]) THEN << >>
             ELSE LET b == SkipSpaces(s, a + Len(InvoiceWords[w]))
                      d == IF b <= Len(s) /\ s[b] \in {":", "#", "="}
                           THEN b + 1 ELSE b
                      e == SkipSpaces(s, d)
                      n == RefRun(s, e)
                  IN  IF n >= 4 THEN <<e, e + n - 1>> ELSE << >>

\* the first choice of cue and word, in the engine's order, that matches at p
InvoiceMatchAt(s, p) ==
    LET W  == Len(InvoiceWords)
        cw == {x \in 0..(Len(InvoiceCues) * W - 1) :
                  InvoiceMatchWith(s, p, (x \div W) + 1, (x % W) + 1) # << >>}
    IN  IF \A c \in 1..Len(InvoiceCues) : ~LiteralAtCI(s, p, InvoiceCues[c])
        THEN << >>                          \* no cue word stands at p
        ELSE IF cw = {} THEN << >>
        ELSE InvoiceMatchWith(s, p, (SetMin(cw) \div W) + 1, (SetMin(cw) % W) + 1)

\* text.match(invoiceRegex) searched from position p: capture group 1 of the
\* leftmost match, << >> when there is none
RECURSIVE matchInvoice(_, _)
matchInvoice(s, p) ==
    IF p > Len(s) THEN << >>
    ELSE LET m == InvoiceMatchAt(s, p)
         IN  IF m = << >> THEN matchInvoice(s, p + 1) ELSE SubSeq(s, m[1], m[2])

extractInvoiceNumber(text) == matchInvoice(text, 1)

(***************************************************************************)
(* extractPaymentMethod                                                    *)
(***************************************************************************)
\* a chain of tests that asks for cash first
extractPaymentMethod_CashFirst(text) ==
    LET lowercaseText == toLowerCase(text)
    IN  IF includes(lowercaseText, <<"c","a","s","h">>) THEN "CASH"
        ELSE IF \/ includes(lowercaseText, <<"c","a","r","d">>)
                \/ includes(lowercaseText, <<"v","i","s","a">>)
                \/ includes(lowercaseText, <<"s","w","i","p","e">>)
        THEN "CARD"
        ELSE "UPI"

extractPaymentMethod(text) ==
    LET lowercaseText == toLowerCase(text)
    IN  IF \/ includes(lowercaseText, <<"u","p","i">>)
           \/ includes(lowercaseText, <<"g","p","a","y">>)
           \/ includes(lowercaseText, <<"p","h","o","n","e","p","e">>)
        THEN "UPI"
        ELSE IF includes(lowercaseText, <<"c","a","s","h">>) THEN "CASH"
        ELSE IF \/ includes(lowercaseText, <<"c","a","r","d">>)
                \/ includes(lowercaseText, <<"v","i","s","a">>)
                \/ includes(lowercaseText, <<"m","a","s","t","e","r","c","a","r","d">>)
                \/ includes(lowercaseText, <<"s","w","i","p","e">>)
        THEN "CARD"
        ELSE "UPI"

(***************************************************************************)
(* analyzeImage                                                            *)
(***************************************************************************)
\* textDetections.map((d) => d.text).join('\n')
RECURSIVE joinLines(_)
joinLines(dets) ==
    IF Len(dets) = 0 THEN << >>
    ELSE IF Len(dets) = 1 THEN dets[1]
    ELSE dets[1] \o <<"\n">> \o joinLines(Tail(dets))

\* the record returned when OCR detected no text; now is
\* new Date().toISOString().split('T')[0]
blankResult(now) ==
    [text |-> << >>, amount |-> << >>, merchant |-> << >>, date |-> now,
     category |-> "Other", invoice_number |-> << >>, payment_method |-> "UPI",
     hasFields |-> FALSE]

\* the record assembled from the joined text
\* a receipt test that looks at the amount alone
isLikelyReceipt_AmountOnly(amount, merchant) == amount # << >>

\* !!(amount || merchant)
isLikelyReceipt(amount, merchant) == amount # << >> \/ merchant # << >>

\* a date that is the current date whatever the text holds
dateOrToday_AlwaysToday(dateResult, now) == now

\* dateResult || new Date().toISOString().split('T')[0]
dateOrToday(dateResult, now) ==
    IF dateResult = null \/ dateResult = << >> THEN now ELSE dateResult

\* what the try block yields instead of a record when an extractor raised
Thrown == [thrown |-> "TypeError"]

\* the return statement of the extraction path; it is not reached when
\* extractAmount raised
assembleResult(fullText, amount, merchant, date) ==
    IF amount = TypeError THEN Thrown
    ELSE [text |-> fullText, amount |-> amount, merchant |-> merchant,
          date |-> date, category |-> extractCategory(fullText),
          invoice_number |-> extractInvoiceNumber(fullText),
          payment_method |-> extractPaymentMethod(fullText),
          hasFields |-> isLikelyReceipt(amount, merchant)]

parsedResult(fullText, now) ==
    assembleResult(fullText, extractAmount(fullText), extractMerchant(fullText),
                   dateOrToday(extractDate(fullText), now))

\* what analyzeImage returns once Ocr.detectText has resolved with dets
analyzeDetections(dets, now) ==
    IF Len(dets) = 0 THEN blankResult(now)
    ELSE parsedResult(joinLines(dets), now)

(***************************************************************************)
(* Inputs                                                                  *)
(***************************************************************************)
FragEmpty == << >>

FragBlank == <<" ","\t"," ">>

FragSubtotal == <<"S","u","b","t","o","t","a","l"," ","1","0","0",".","0","0">>

FragTotal == <<"T","O","T","A","L",":"," ","1",",","2","5","0",".","0","0">>

FragPrice45 == <<"4","5",".","0","0">>

FragPrice120 == <<"1","2","0",".","5","0">>

FragPriceComma == <<"1",",","5","0">>

FragAmtDots == <<"A","m","t","=","1",".","2","3","4",".","5","6","7",",","8","9">>

FragRupee == <<"₹","9","9",".","5","0">>

FragDate == <<"D","a","t","e",":"," ","0","7","/","0","3","/","2","0","2","4">>

FragIsoDate == <<"2","0","2","4","-","0","3","-","0","7">>

FragShortDate == <<"5","-","6","-","2","3">>

FragYear3 == <<"1","/","2","/","2","0","2">>

FragBadDate == <<"3","1","/","0","2","/","2","0","2","4">>

FragZomato == <<"z","o","m","a","t","o">>

FragUber == <<"U","b","e","r">>

FragGrocery == <<"G","r","o","c","e","r","y">>

FragHotel == <<"H","o","t","e","l">>

FragName == <<"B","i","g"," ","B","a","z","a","a","r">>

\* the text fragments the OCR collaborator reports
Fragments ==
    {FragEmpty, FragBlank, FragSubtotal, FragTotal, FragPrice45, FragPrice120,
     FragPriceComma, FragAmtDots, FragRupee, FragDate, FragIsoDate,
     FragShortDate, FragYear3, FragBadDate, FragZomato, FragUber, FragGrocery,
     FragHotel, FragName}

FragReceipt == <<"R","E","C","E","I","P","T">>

FragStore == <<"B","i","g"," ","B","a","z","a","a","r"," ","S","t","o","r","e">>

FragUberPhone == <<"U","b","e","r"," ","9","8","7","6","5","4","3","2","1","0">>

FragOlaCabs == <<"O","l","a"," ","C","a","b","s">>

FragUberRun == <<"U","b","e","r"," ","d","d","d","d","d","d","d","d","d","d">>

FragFourLines == <<"S","h","o","p"," ","1","2","\n","M","G"," ","R","o","a","d","\n","P","u","n","e","\n","T","e","l"," ","2","3","4","5">>

FragFiveLines == <<"S","h","o","p"," ","1","2","\n","M","G"," ","R","o","a","d","\n","P","u","n","e","\n","T","e","l"," ","2","3","4","5","\n","G","S","T","I","N"," ","2","7">>

FragPadded == <<" "," ","A","1"," ","\t">>

FragCashUpi == <<"C","a","s","h"," ","/"," ","U","P","I">>

FragCashCard == <<"c","a","s","h",","," ","n","o"," ","c","a","r","d">>

FragVisa == <<"V","I","S","A"," ","4","1","1","1">>

FragInvoiceNo == <<"I","N","V","O","I","C","E"," ","N","O",":"," ","A","B","-","1","2","3","4">>

FragBillNo == <<"B","i","l","l"," ","N","o",":"," ","1","2","3","4">>

FragBillAmount == <<"B","i","l","l"," ","a","m","o","u","n","t"," ","d","u","e">>

FragTxn == <<"T","X","N","#","T","X","/","9","9","-","0","1">>

\* the text fragments of receipts whose lines, references and payment words
\* the OCR collaborator reports
LineFragments ==
    {FragReceipt, FragStore, FragUberPhone, FragOlaCabs, FragUberRun,
     FragFourLines, FragFiveLines, FragPadded, FragCashUpi, FragCashCard,
     FragVisa, FragInvoiceNo, FragBillNo, FragBillAmount, FragTxn}

FragTotalThousands == <<"T","O","T","A","L"," ","1","0","0",".","0","0","0">>

FragPrice150 == <<"1","5","0",".","0","0">>

\* the text fragments of receipts whose amounts run on after two decimals
\* or are equal in value
AmountFragments ==
    {FragTotalThousands, FragPrice150, FragPriceComma, FragPrice120,
     FragSubtotal}

\* the most fragments of one detection
MaxDetections == 2

\* what Ocr.detectText resolves with: fragments of one of the families, in
\* any order
Detections ==
    UNION {[1..n -> Fragments] \cup [1..n -> LineFragments]
              \cup [1..n -> AmountFragments] : n \in 0..MaxDetections}

\* the dates the clock shows
Dates == { <<"2","0","2","6","-","1","1","-","0","6">>,
           <<"2","0","2","4","-","0","2","-","2","9">> }

\* the shortest base64 payload that is accepted
MinBase64Length == 100

\* the arguments of analyzeImage: null, undefined, the empty string, a file
\* path, a data URL; length is the length of the string and base64Length
\* that of the part after the comma of a data URL
ImageSrcs ==
    {[kind |-> "null",      length |-> 0,   base64Length |-> 0],
     [kind |-> "undefined", length |-> 0,   base64Length |-> 0],
     [kind |-> "empty",     length |-> 0,   base64Length |-> 0],
     [kind |-> "path",      length |-> 40,  base64Length |-> 0],
     [kind |-> "dataUrl",   length |-> 23,  base64Length |-> 0],
     [kind |-> "dataUrl",   length |-> 122, base64Length |-> MinBase64Length - 1],
     [kind |-> "dataUrl",   length |-> 123, base64Length |-> MinBase64Length]}

\* !imageSrc
isFalsy(src) == src.kind \in {"null", "undefined", "empty"}

\* imageSrc.startsWith('data:')
startsWithData(src) == src.kind = "dataUrl"

\* the messages Ocr.detectText rejects with
OcrFailures == {"permission denied", "no access to file", "ocr_failed"}

NoResult == [text |-> << >>]

(***************************************************************************)
(* The Capture component as useState constructs it                         *)
(***************************************************************************)
\* FORM_CONFIG.paymentMethods, the options of the form's method selector
FormPaymentMethods == <<"UPI", "CASH", "CARD">>

\* FORM_CONFIG.categories[0]
FirstCategory == "HOTEL"

\* the initial value of formData; now is
\* new Date().toISOString().split('T')[0]
initialFormData(now) ==
    [amount |-> << >>, category |-> FirstCategory,
     method |-> FormPaymentMethods[1], date |-> now, merchant |-> << >>,
     invoice_number |-> << >>]

\* the day on which the component is mounted
CaptureDay == <<"2","0","2","6","-","1","1","-","0","6">>

\* step 'select', no image, the initial formData, analysisData null (the
\* record without fields stands for null), nothing being submitted, no
\* error; no handler awaits anything and App has just been mounted
CaptureConstructed ==
    /\ step = "select"
    /\ image = "null"
    /\ formData = initialFormData(CaptureDay)
    /\ analysisData = NoResult
    /\ isSubmitting = FALSE
    /\ errorMsg = ""
    /\ errorType = "null"
    /\ handlers = EmptyBag
    /\ appPc = "checkPermissions"

(***************************************************************************)
(* The state machine: one call of analyzeImage after the other.            *)
(* today is what new Date().toISOString().split('T')[0] gives when read.   *)
(***************************************************************************)
Init ==
    /\ pc = "idle"
    /\ textDetections = << >>
    /\ today \in Dates
    /\ result = NoResult
    /\ error = "none"
    /\ CaptureConstructed
    /\ permissions = [camera |-> "prompt", photos |-> "prompt"]

\* analyzeImage(src) up to its await: the argument checks
Call(src) ==
    /\ pc = "idle"
    /\ IF isFalsy(src)
       THEN pc' = "rejected" /\ error' = "source empty"
       ELSE IF startsWithData(src) /\ src.base64Length < MinBase64Length
       THEN pc' = "rejected" /\ error' = "corrupted data"
       ELSE pc' = "awaitOcr" /\ error' = "none"
    /\ UNCHANGED <<textDetections, today, result>>
    /\ UNCHANGED captureVars

\* how analyzeImage ends once the try block has yielded r: with the record,
\* or, through the catch block, with the error it makes of a raised TypeError
SettleAs(r, returned) ==
    IF r = Thrown
    THEN pc' = "rejected" /\ result' = NoResult /\ error' = "ocr failed"
    ELSE pc' = returned /\ result' = r /\ error' = "none"

Settle(r) == SettleAs(r, "resolved")

\* Ocr.detectText resolves with dets: the rest of analyzeImage's try block
OcrResolves(dets) ==
    /\ pc = "awaitOcr"
    /\ textDetections' = dets
    /\ Settle(analyzeDetections(dets, today))
    /\ UNCHANGED today
    /\ UNCHANGED captureVars

\* Ocr.detectText rejects with msg: the catch block
OcrRejects(msg) ==
    /\ pc = "awaitOcr"
    /\ error' = IF msg \in {"permission denied", "no access to file"}
                THEN "permission required"
                ELSE "ocr failed"
    /\ pc' = "rejected"
    /\ UNCHANGED <<textDetections, today, result>>
    /\ UNCHANGED captureVars

\* the caller has taken the outcome; the next call starts from scratch
Return ==
    /\ pc \in {"resolved", "reanalyzed", "rejected"}
    /\ pc' = "idle"
    /\ textDetections' = << >>
    /\ result' = NoResult
    /\ error' = "none"
    /\ UNCHANGED today
    /\ UNCHANGED captureVars

\* midnight (UTC) passes between two calls or while OCR is awaited
Tick ==
    /\ pc \in {"idle", "awaitOcr"}
    /\ today' \in Dates \ {today}
    /\ UNCHANGED <<pc, textDetections, result, error>>
    /\ UNCHANGED captureVars

Next ==
    \/ \E src \in ImageSrcs : Call(src)
    \/ \E dets \in Detections : OcrResolves(dets)
    \/ \E msg \in OcrFailures : OcrRejects(msg)
    \/ Return
    \/ Tick

Spec == Init /\ [][Next]_vars

(***************************************************************************)
(* The same image analysed twice: the caller hands the image it holds to   *)
(* analyzeImage once more, when the clock shows now, and Ocr.detectText    *)
(* reports the detections it reported before.                              *)
(***************************************************************************)
\* the fragments of the images that are analysed twice
RepeatFragments ==
    {FragBlank, FragTotal, FragDate, FragBadDate, FragZomato, FragStore,
     FragInvoiceNo, FragCashUpi}

RepeatDetections == UNION {[1..n -> RepeatFragments] : n \in 0..MaxDetections}

Reanalyze(now) ==
    /\ pc \in {"resolved", "reanalyzed"}
    /\ today' = now
    /\ SettleAs(analyzeDetections(textDetections, now), "reanalyzed")
    /\ UNCHANGED textDetections
    /\ UNCHANGED captureVars

NextRepeat ==
    \/ \E src \in ImageSrcs : Call(src)
    \/ \E dets \in RepeatDetections : OcrResolves(dets)
    \/ \E msg \in OcrFailures : OcrRejects(msg)
    \/ \E now \in Dates : Reanalyze(now)
    \/ Return
    \/ Tick

SpecRepeat == Init /\ [][NextRepeat]_vars

(***************************************************************************)
(* The later analyzeImage of the file ("Robust OCR and Data Extraction"),  *)
(* with the extractCategory and extractMerchant that stand below it: it    *)
(* measures the whole data URL, throws when OCR detected no text, spells   *)
(* the third category GLOCERY and looks for a merchant name in 3 lines.    *)
(***************************************************************************)
\* the shortest data URL that is accepted
MinDataUrlLength == 100

\* the lines the later merchant loop looks at
MerchantLinesRobust == 3

categoriesRobust ==
    [i \in 1..Len(categories) |->
        [cat |-> IF categories[i].cat = "GROCERY" THEN "GLOCERY"
                 ELSE categories[i].cat,
         keywords |-> categories[i].keywords]]

RECURSIVE firstCategoryRobust(_, _)
firstCategoryRobust(lowercaseText, i) ==
    IF i > Len(categoriesRobust) THEN "Other"
    ELSE IF someKeyword(lowercaseText, categoriesRobust[i].keywords)
    THEN categoriesRobust[i].cat
    ELSE firstCategoryRobust(lowercaseText, i + 1)

extractCategoryRobust(text) == firstCategoryRobust(toLowerCase(text), 1)

\* commonMerchants.some(m => line.toLowerCase().includes(m.toLowerCase()))
isCommonMerchantLine(line) ==
    \E k \in 1..Len(commonMerchants) :
        includes(toLowerCase(line), toLowerCase(commonMerchants[k]))

RECURSIVE merchantFromRobust(_, _)
merchantFromRobust(lines, i) ==
    IF i > min(Len(lines), MerchantLinesRobust) THEN lines[1]
    ELSE IF isCommonMerchantLine(lines[i]) THEN lines[i]
    ELSE merchantFromRobust(lines, i + 1)

merchantOfRobust(lines) ==
    IF Len(lines) = 0 THEN << >> ELSE merchantFromRobust(lines, 1)

extractMerchantRobust(text) == merchantOfRobust(merchantLines(text))

assembleResultRobust(fullText, amount, merchant, date) ==
    IF amount = TypeError THEN Thrown
    ELSE [text |-> fullText, amount |-> amount, merchant |-> merchant,
          date |-> date, category |-> extractCategoryRobust(fullText),
          invoice_number |-> extractInvoiceNumber(fullText),
          payment_method |-> extractPaymentMethod(fullText),
          hasFields |-> isLikelyReceipt(amount, merchant)]

parsedResultRobust(fullText, now) ==
    assembleResultRobust(fullText, extractAmount(fullText),
                         extractMerchantRobust(fullText),
                         dateOrToday(extractDate(fullText), now))

\* analyzeImage(src) up to its await
CallRobust(src) ==
    /\ pc = "idle"
    /\ IF isFalsy(src)
       THEN pc' = "rejected" /\ error' = "source empty"
       ELSE IF startsWithData(src) /\ src.length < MinDataUrlLength
       THEN pc' = "rejected" /\ error' = "corrupted data"
       ELSE pc' = "awaitOcr" /\ error' = "none"
    /\ UNCHANGED <<textDetections, today, result>>
    /\ UNCHANGED captureVars

\* the end of the try block, or, through the catch block, the error it makes
\* of a raised TypeError
SettleRobust(r) ==
    IF r = Thrown
    THEN pc' = "rejected" /\ result' = NoResult /\ error' = "ml kit failed"
    ELSE pc' = "resolved" /\ result' = r /\ error' = "none"

\* Ocr.detectText resolves with dets: "Case 1: No text detected at all"
\* throws, and the catch block throws that error on
OcrResolvesRobust(dets) ==
    /\ pc = "awaitOcr"
    /\ textDetections' = dets
    /\ IF Len(dets) = 0
       THEN pc' = "rejected" /\ result' = NoResult /\ error' = "no readable text"
       ELSE SettleRobust(parsedResultRobust(joinLines(dets), today))
    /\ UNCHANGED today
    /\ UNCHANGED captureVars

\* Ocr.detectText rejects with msg: the catch block
OcrRejectsRobust(msg) ==
    /\ pc = "awaitOcr"
    /\ error' = IF msg \in {"permission denied", "no access to file"}
                THEN "permission required"
                ELSE "ml kit failed"
    /\ pc' = "rejected"
    /\ UNCHANGED <<textDetections, today, result>>
    /\ UNCHANGED captureVars

NextRobust ==
    \/ \E src \in ImageSrcs : CallRobust(src)
    \/ \E dets \in Detections : OcrResolvesRobust(dets)
    \/ \E msg \in OcrFailures : OcrRejectsRobust(msg)
    \/ Return
    \/ Tick

SpecRobust == Init /\ [][NextRobust]_vars

(***************************************************************************)
(* The capture flow of components/Capture.jsx (the first Capture of the    *)
(* file): the taps of the user and the continuations of the handlers that  *)
(* await the camera plugin, the PDF renderer, analyzeImage or the form     *)
(* endpoint. A handler that awaits is an element of the bag handlers; the  *)
(* continuation of any of them may run next.                               *)
(***************************************************************************)
\* how many handlers await something at the same time
MaxHandlers == 2

\* a handler that awaits: kind is the handler, at the call it awaits, found
\* the permission state that let it pass, data the formData it submits
Handler(kind, at, found, data) ==
    [kind |-> kind, at |-> at, found |-> found, data |-> data]

NoData == initialFormData(<< >>)

Awaiting == BagToSet(handlers)

Replace(h, g) == (handlers (-) SetToBag({h})) (+) SetToBag({g})

Finish(h) == handlers (-) SetToBag({h})

\* what Camera.requestPermissions resolves with for a permission in the
\* given state: the system asks the user only while the state is 'prompt'
requestOutcomes(state, type) ==
    IF state = "prompt"
    THEN {"granted", "denied"} \cup (IF type = "photos" THEN {"limited"} ELSE {})
    ELSE {state}

\* App.initPermissions: needCamera
needCamera(status) == status.camera # "granted"

\* App.initPermissions: needPhotos
needPhotos(status) == status.photos # "granted" /\ status.photos # "limited"

\* App.initPermissions, up to the end of its await of checkPermissions
initPermissionsChecks ==
    /\ appPc = "checkPermissions"
    /\ appPc' = IF needCamera(permissions) \/ needPhotos(permissions)
                THEN "requestPermissions" ELSE "done"
    /\ UNCHANGED <<step, image, formData, analysisData, isSubmitting,
                   errorMsg, errorType, handlers, permissions>>
    /\ UNCHANGED ocrVars

\* App.initPermissions: Camera.requestPermissions for camera and photos
\* resolves
initPermissionsRequests(camera, photos) ==
    /\ appPc = "requestPermissions"
    /\ camera \in requestOutcomes(permissions.camera, "camera")
    /\ photos \in requestOutcomes(permissions.photos, "photos")
    /\ permissions' = [camera |-> camera, photos |-> photos]
    /\ appPc' = "done"
    /\ UNCHANGED <<step, image, formData, analysisData, isSubmitting,
                   errorMsg, errorType, handlers>>
    /\ UNCHANGED ocrVars

\* a permission check that asks whatever the state is
needsRequest_Never(state) == FALSE

\* checkAndRequestPermissions: status.camera !== 'granted', resp.
\* status.photos !== 'granted'
needsRequest(state) == state # "granted"

\* handleCameraCapture (type 'camera') and handleGalleryUpload (type
\* 'photos') up to the await of Camera.checkPermissions
handleCapture(type) ==
    /\ step = "select"
    /\ BagCardinality(handlers) < MaxHandlers
    /\ handlers' = handlers (+) SetToBag({Handler(type, "checkPermissions", "unknown", NoData)})
    /\ UNCHANGED <<step, image, formData, analysisData, isSubmitting,
                   errorMsg, errorType, permissions, appPc>>
    /\ UNCHANGED ocrVars

handleCameraCapture == handleCapture("camera")

handleGalleryUpload == handleCapture("photos")

\* the catch block of checkAndRequestPermissions, and the return of the
\* handler that called it
permissionRefused(h, msg) ==
    /\ errorMsg' = msg
    /\ errorType' = "permission"
    /\ step' = "error"
    /\ handlers' = Finish(h)

\* Camera.checkPermissions resolves: the handler goes on to Camera.getPhoto
\* or to Camera.requestPermissions
checkPermissionsResolves(h) ==
    /\ h \in Awaiting
    /\ h.at = "checkPermissions"
    /\ handlers' =
          IF needsRequest(permissions[h.kind])
          THEN Replace(h, Handler(h.kind, "requestPermissions", "unknown", NoData))
          ELSE Replace(h, Handler(h.kind, "getPhoto", permissions[h.kind], NoData))
    /\ UNCHANGED <<step, image, formData, analysisData, isSubmitting,
                   errorMsg, errorType, permissions, appPc>>
    /\ UNCHANGED ocrVars

\* Camera.requestPermissions resolves with the state outcome; msg is the
\* errorMsg of the catch block
requestPermissionsResolvesWith(h, outcome, msg) ==
    /\ h \in Awaiting
    /\ h.at = "requestPermissions"
    /\ outcome \in requestOutcomes(permissions[h.kind], h.kind)
    /\ permissions' = [permissions EXCEPT ![h.kind] = outcome]
    /\ IF outcome # "granted"
       THEN permissionRefused(h, msg)
       ELSE /\ handlers' = Replace(h, Handler(h.kind, "getPhoto", outcome, NoData))
            /\ UNCHANGED <<step, errorMsg, errorType>>
    /\ UNCHANGED <<image, formData, analysisData, isSubmitting, appPc>>
    /\ UNCHANGED ocrVars

requestPermissionsResolves(h, outcome) ==
    requestPermissionsResolvesWith(h, outcome, "Missing Permissions!")

\* what Camera.getPhoto resolves with: a photo without base64String, or
\* one with it
Photos == {"empty", "base64"}

\* the messages Camera.getPhoto rejects with
GetPhotoFailures == {"User cancelled photos app", "camera unavailable"}

\* the errorMsg of the catch blocks of handleCameraCapture and
\* handleGalleryUpload
captureErrorMsg(kind, unreadable) ==
    IF kind = "camera"
    THEN IF unreadable THEN "Captured image is unreadable."
         ELSE "Could not use camera."
    ELSE IF unreadable THEN "Selected image is empty or invalid."
         ELSE "Could not read image from gallery."

\* startProcessing(imgSrc) up to its await of analyzeImage, called by the
\* handler h with an image source that is a non-empty string
startProcessing(h) ==
    /\ step' = "processing"
    /\ errorMsg' = ""
    /\ handlers' = Replace(h, Handler(h.kind, "analyzeImage", h.found, NoData))

\* Camera.getPhoto resolves
getPhotoResolves(h, photo) ==
    /\ h \in Awaiting
    /\ h.at = "getPhoto"
    /\ IF photo = "empty"
       THEN /\ errorMsg' = captureErrorMsg(h.kind, TRUE)
            /\ step' = "error"
            /\ handlers' = Finish(h)
            /\ UNCHANGED image
       ELSE /\ image' = "dataUrl"
            /\ startProcessing(h)
    /\ UNCHANGED <<formData, analysisData, isSubmitting, errorType,
                   permissions, appPc>>
    /\ UNCHANGED ocrVars

\* Camera.getPhoto rejects
getPhotoRejects(h, msg) ==
    /\ h \in Awaiting
    /\ h.at = "getPhoto"
    /\ handlers' = Finish(h)
    /\ IF msg # "User cancelled photos app"
       THEN /\ errorMsg' = captureErrorMsg(h.kind, FALSE)
            /\ step' = "error"
       ELSE UNCHANGED <<errorMsg, step>>
    /\ UNCHANGED <<image, formData, analysisData, isSubmitting, errorType,
                   permissions, appPc>>
    /\ UNCHANGED ocrVars

\* e.target.files[0]: nothing, a file of size 0, a PDF file
Files == {"none", "empty", "pdf"}

\* handlePDFUploadChange up to its first await
handlePDFUploadChange(file) ==
    /\ step = "select"
    /\ BagCardinality(handlers) < MaxHandlers
    /\ IF file = "none"
       THEN UNCHANGED <<step, errorMsg, handlers>>
       ELSE IF file = "empty"
       THEN /\ errorMsg' = "Could not read PDF file."
            /\ step' = "error"
            /\ UNCHANGED handlers
       ELSE /\ step' = "processing"
            /\ errorMsg' = ""
            /\ handlers' = handlers (+) SetToBag({Handler("pdf", "render", "unknown", NoData)})
    /\ UNCHANGED <<image, formData, analysisData, isSubmitting, errorType,
                   permissions, appPc>>
    /\ UNCHANGED ocrVars

\* what canvas.toDataURL gives: a string of less than 100 characters, or a
\* data URL
Renderings == {"short", "dataUrl"}

\* the first page has been rendered
pdfRenders(h, imageSrc) ==
    /\ h \in Awaiting
    /\ h.at = "render"
    /\ IF imageSrc = "short"
       THEN /\ errorMsg' = "PDF Rendering failed."
            /\ step' = "error"
            /\ handlers' = Finish(h)
            /\ UNCHANGED image
       ELSE /\ image' = "dataUrl"
            /\ startProcessing(h)
    /\ UNCHANGED <<formData, analysisData, isSubmitting, errorType,
                   permissions, appPc>>
    /\ UNCHANGED ocrVars

\* pdfjs rejects: no pages, a password, a corrupted file
pdfRejects(h) ==
    /\ h \in Awaiting
    /\ h.at = "render"
    /\ errorMsg' = "Could not read PDF file."
    /\ step' = "error"
    /\ handlers' = Finish(h)
    /\ UNCHANGED <<image, formData, analysisData, isSubmitting, errorType,
                   permissions, appPc>>
    /\ UNCHANGED ocrVars

\* value || fallback, of the fields that are text
orElse(value, fallback) == IF value = << >> THEN fallback ELSE value

\* value || fallback, of the fields that are labels
orDefault(value, fallback) == IF value = "" THEN fallback ELSE value

\* the formData that startProcessing makes of the result of analyzeImage
filledFormData(prev, r, now) ==
    [prev EXCEPT !.amount = orElse(r.amount, << >>),
                 !.category = orDefault(r.category, FirstCategory),
                 !.method = orDefault(r.payment_method, FormPaymentMethods[1]),
                 !.date = orElse(r.date, now),
                 !.merchant = orElse(r.merchant, << >>),
                 !.invoice_number = orElse(r.invoice_number, << >>)]

\* !result.amount && !result.merchant && !result.text
noUsableText(r) == r.amount = << >> /\ r.merchant = << >> /\ r.text = << >>

\* the catch block of startProcessing
processingFailed(h, msg) ==
    /\ errorMsg' = msg
    /\ errorType' = "generic"
    /\ step' = "error"
    /\ handlers' = Finish(h)

\* how startProcessing goes on once analyzeImage has resolved with r
processed(h, r) ==
    IF noUsableText(r)
    THEN /\ processingFailed(h, "OCR returned no usable text.")
         /\ UNCHANGED <<analysisData, formData>>
    ELSE /\ analysisData' = r
         /\ formData' = filledFormData(formData, r, today)
         /\ step' = "form"
         /\ handlers' = Finish(h)
         /\ UNCHANGED <<errorMsg, errorType>>

\* what Ocr.detectText reports for the images of the capture flow: no
\* text, white space, a receipt
CaptureDetections == {<< >>, <<FragBlank>>, <<FragTotal>>}

\* what analyzeImage resolves with for these images
CaptureResults == {analyzeDetections(dets, CaptureDay) : dets \in CaptureDetections}

\* the messages analyzeImage rejects with
AnalyzeFailures == {"Permission required to read file.", "ML Kit failed to analyze this image."}

\* analyzeImage resolves with r
analyzeImageResolves(h, r) ==
    /\ h \in Awaiting
    /\ h.at = "analyzeImage"
    /\ processed(h, r)
    /\ UNCHANGED <<image, isSubmitting, permissions, appPc>>
    /\ UNCHANGED ocrVars

\* analyzeImage rejects
analyzeImageRejects(h, msg) ==
    /\ h \in Awaiting
    /\ h.at = "analyzeImage"
    /\ processingFailed(h, msg)
    /\ UNCHANGED <<image, formData, analysisData, isSubmitting, permissions,
                   appPc>>
    /\ UNCHANGED ocrVars

\* the button of the error step: "Try Another Way"
tryAnotherWay ==
    /\ step = "error"
    /\ step' = "select"
    /\ UNCHANGED <<image, formData, analysisData, isSubmitting, errorMsg,
                   errorType, handlers, permissions, appPc>>
    /\ UNCHANGED ocrVars

\* the button on the image of the form step
retake ==
    /\ step = "form"
    /\ image # "null"
    /\ step' = "select"
    /\ UNCHANGED <<image, formData, analysisData, isSubmitting, errorMsg,
                   errorType, handlers, permissions, appPc>>
    /\ UNCHANGED ocrVars

\* what the user types into the amount field
TypedAmounts == {<<"4","5">>}

\* onChange of the amount field of the form step
onChangeAmount(value) ==
    /\ step = "form"
    /\ formData' = [formData EXCEPT !.amount = value]
    /\ UNCHANGED <<step, image, analysisData, isSubmitting, errorMsg,
                   errorType, handlers, permissions, appPc>>
    /\ UNCHANGED ocrVars

\* a submit button that is never disabled
submitDisabled_Never == FALSE

\* disabled={isSubmitting}
submitDisabled == isSubmitting

\* handleSubmit up to its await of submitToGoogleForm(formData); the form
\* is submitted when the button is enabled and the required amount field
\* is filled
handleSubmit ==
    /\ step = "form"
    /\ ~submitDisabled
    /\ formData.amount # << >>
    /\ BagCardinality(handlers) < MaxHandlers
    /\ isSubmitting' = TRUE
    /\ handlers' = handlers (+) SetToBag({Handler("submit", "submitToGoogleForm", "unknown", formData)})
    /\ UNCHANGED <<step, image, formData, analysisData, errorMsg, errorType,
                   permissions, appPc>>
    /\ UNCHANGED ocrVars

\* what submitToGoogleForm resolves with
SubmitOutcomes == {TRUE, FALSE}

\* submitToGoogleForm resolves with success
submitResolves(h, success) ==
    /\ h \in Awaiting
    /\ h.at = "submitToGoogleForm"
    /\ isSubmitting' = FALSE
    /\ step' = IF success THEN "success" ELSE step
    /\ handlers' = Finish(h)
    /\ UNCHANGED <<image, formData, analysisData, errorMsg, errorType,
                   permissions, appPc>>
    /\ UNCHANGED ocrVars

InitCapture ==
    /\ pc = "idle"
    /\ textDetections = << >>
    /\ today = CaptureDay
    /\ result = NoResult
    /\ error = "none"
    /\ CaptureConstructed
    /\ permissions \in {[camera |-> "prompt", photos |-> "prompt"],
                        [camera |-> "granted", photos |-> "limited"]}

NextCapture ==
    \/ initPermissionsChecks
    \/ \E camera, photos \in {"granted", "limited", "denied"} : initPermissionsRequests(camera, photos)
    \/ handleCameraCapture
    \/ handleGalleryUpload
    \/ \E h \in Awaiting : checkPermissionsResolves(h)
    \/ \E h \in Awaiting : \E outcome \in {"granted", "limited", "denied"} : requestPermissionsResolves(h, outcome)
    \/ \E h \in Awaiting : \E photo \in Photos : getPhotoResolves(h, photo)
    \/ \E h \in Awaiting : \E msg \in GetPhotoFailures : getPhotoRejects(h, msg)
    \/ \E file \in Files : handlePDFUploadChange(file)
    \/ \E h \in Awaiting : \E imageSrc \in Renderings : pdfRenders(h, imageSrc)
    \/ \E h \in Awaiting : pdfRejects(h)
    \/ \E h \in Awaiting : \E r \in CaptureResults : analyzeImageResolves(h, r)
    \/ \E h \in Awaiting : \E msg \in AnalyzeFailures : analyzeImageRejects(h, msg)
    \/ tryAnotherWay
    \/ retake
    \/ \E value \in TypedAmounts : onChangeAmount(value)
    \/ handleSubmit
    \/ \E h \in Awaiting : \E success \in SubmitOutcomes : submitResolves(h, success)

SpecCapture == InitCapture /\ [][NextCapture]_vars

(***************************************************************************)
(* The capture flow of the second Capture of components/Capture.jsx: the   *)
(* camera plugin gives a file path, data URLs are normalized before they   *)
(* are analysed, and a result without fields leads to the step             *)
(* 'format_warning'.                                                       *)
(***************************************************************************)
requestPermissionsResolves2(h, outcome) ==
    requestPermissionsResolvesWith(h, outcome, "Permission Required")

\* what Camera.getPhoto resolves with: a photo without path and webPath,
\* or one with a path
Photos2 == {"noPath", "path"}

\* the catch block of handleCameraCapture, handleGalleryUpload and
\* handlePDFUploadChange
captureFailed2(h, msg) ==
    /\ errorMsg' = msg
    /\ errorType' = "generic"
    /\ step' = "error"
    /\ handlers' = Finish(h)

\* startProcessing(src) up to its first await: of normalizeImage for a data
\* URL, of analyzeImage (after setImage) for a path
startProcessing2(h, src) ==
    /\ step' = "processing"
    /\ errorMsg' = ""
    /\ IF src = "dataUrl"
       THEN /\ handlers' = Replace(h, Handler(h.kind, "normalizeImage", h.found, NoData))
            /\ UNCHANGED image
       ELSE /\ handlers' = Replace(h, Handler(h.kind, "analyzeImage", h.found, NoData))
            /\ image' = src

\* Camera.getPhoto resolves
getPhotoResolves2(h, photo) ==
    /\ h \in Awaiting
    /\ h.at = "getPhoto"
    /\ IF photo = "noPath"
       THEN /\ captureFailed2(h, "Unable to prepare image for analysis.")
            /\ UNCHANGED image
       ELSE /\ startProcessing2(h, photo)
            /\ UNCHANGED errorType
    /\ UNCHANGED <<formData, analysisData, isSubmitting, permissions, appPc>>
    /\ UNCHANGED ocrVars

\* Camera.getPhoto rejects
getPhotoRejects2(h, msg) ==
    /\ h \in Awaiting
    /\ h.at = "getPhoto"
    /\ IF msg # "User cancelled photos app"
       THEN captureFailed2(h, "Unable to prepare image for analysis.")
       ELSE /\ handlers' = Finish(h)
            /\ UNCHANGED <<errorMsg, errorType, step>>
    /\ UNCHANGED <<image, formData, analysisData, isSubmitting, permissions,
                   appPc>>
    /\ UNCHANGED ocrVars

\* handlePDFUploadChange up to its first await
handlePDFUploadChange2(file) ==
    /\ step = "select"
    /\ BagCardinality(handlers) < MaxHandlers
    /\ IF file = "none"
       THEN UNCHANGED <<step, errorMsg, handlers>>
       ELSE /\ step' = "processing"
            /\ errorMsg' = ""
            /\ handlers' = handlers (+) SetToBag({Handler("pdf", "render", "unknown", NoData)})
    /\ UNCHANGED <<image, formData, analysisData, isSubmitting, errorType,
                   permissions, appPc>>
    /\ UNCHANGED ocrVars

\* the first page has been rendered: startProcessing(dataUrl)
pdfRenders2(h) ==
    /\ h \in Awaiting
    /\ h.at = "render"
    /\ startProcessing2(h, "dataUrl")
    /\ UNCHANGED <<formData, analysisData, isSubmitting, errorType,
                   permissions, appPc>>
    /\ UNCHANGED ocrVars

\* pdfjs rejects
pdfRejects2(h) ==
    /\ h \in Awaiting
    /\ h.at = "render"
    /\ captureFailed2(h, "PDF not supported or corrupted.")
    /\ UNCHANGED <<image, formData, analysisData, isSubmitting, permissions,
                   appPc>>
    /\ UNCHANGED ocrVars

\* normalizeImage resolves: setImage(preview), then analyzeImage(src)
normalizeImageResolves(h) ==
    /\ h \in Awaiting
    /\ h.at = "normalizeImage"
    /\ image' = "dataUrl"
    /\ handlers' = Replace(h, Handler(h.kind, "analyzeImage", h.found, NoData))
    /\ UNCHANGED <<step, formData, analysisData, isSubmitting, errorMsg,
                   errorType, permissions, appPc>>
    /\ UNCHANGED ocrVars

\* if (!result.hasFields) setStep('format_warning') else setStep('form')
nextStep(r) == IF ~r.hasFields THEN "format_warning" ELSE "form"

\* analyzeImage resolves with r
analyzeImageResolves2(h, r) ==
    /\ h \in Awaiting
    /\ h.at = "analyzeImage"
    /\ analysisData' = r
    /\ formData' = filledFormData(formData, r, today)
    /\ step' = nextStep(r)
    /\ handlers' = Finish(h)
    /\ UNCHANGED <<image, isSubmitting, errorMsg, errorType, permissions,
                   appPc>>
    /\ UNCHANGED ocrVars

\* the messages analyzeImage rejects with
AnalyzeFailures2 ==
    {"Unable to prepare image for analysis (corrupted data).",
     "ML Kit failed to analyze this image."}

\* msg.includes('prepare')
includesPrepare(msg) ==
    msg = "Unable to prepare image for analysis (corrupted data)."

\* analyzeImage rejects with msg: the catch block of startProcessing
analyzeImageRejects2(h, msg) ==
    /\ h \in Awaiting
    /\ h.at = "analyzeImage"
    /\ errorMsg' = msg
    /\ errorType' = IF includesPrepare(msg) THEN "prep" ELSE "generic"
    /\ step' = "error"
    /\ handlers' = Finish(h)
    /\ UNCHANGED <<image, formData, analysisData, isSubmitting, permissions,
                   appPc>>
    /\ UNCHANGED ocrVars

\* the button "Fill Manually" of the step 'format_warning'
fillManually ==
    /\ step = "format_warning"
    /\ step' = "form"
    /\ UNCHANGED <<image, formData, analysisData, isSubmitting, errorMsg,
                   errorType, handlers, permissions, appPc>>
    /\ UNCHANGED ocrVars

\* the button "Try Another Image" of the step 'format_warning'
tryAnotherImage ==
    /\ step = "format_warning"
    /\ step' = "select"
    /\ UNCHANGED <<image, formData, analysisData, isSubmitting, errorMsg,
                   errorType, handlers, permissions, appPc>>
    /\ UNCHANGED ocrVars

NextCapture2 ==
    \/ initPermissionsChecks
    \/ \E camera, photos \in {"granted", "limited", "denied"} : initPermissionsRequests(camera, photos)
    \/ handleCameraCapture
    \/ handleGalleryUpload
    \/ \E h \in Awaiting : checkPermissionsResolves(h)
    \/ \E h \in Awaiting : \E outcome \in {"granted", "limited", "denied"} : requestPermissionsResolves2(h, outcome)
    \/ \E h \in Awaiting : \E photo \in Photos2 : getPhotoResolves2(h, photo)
    \/ \E h \in Awaiting : \E msg \in GetPhotoFailures : getPhotoRejects2(h, msg)
    \/ \E file \in Files : handlePDFUploadChange2(file)
    \/ \E h \in Awaiting : pdfRenders2(h)
    \/ \E h \in Awaiting : pdfRejects2(h)
    \/ \E h \in Awaiting : normalizeImageResolves(h)
    \/ \E h \in Awaiting : \E r \in CaptureResults : analyzeImageResolves2(h, r)
    \/ \E h \in Awaiting : \E msg \in AnalyzeFailures2 : analyzeImageRejects2(h, msg)
    \/ tryAnotherWay
    \/ fillManually
    \/ tryAnotherImage
    \/ \E value \in TypedAmounts : onChangeAmount(value)
    \/ handleSubmit
    \/ \E h \in Awaiting : \E success \in SubmitOutcomes : submitResolves(h, success)

SpecCapture2 == InitCapture /\ [][NextCapture2]_vars

(***************************************************************************)
(* Properties                                                              *)
(***************************************************************************)
\* the newline-joined text of the detections of the call
ocrText == joinLines(textDetections)

\* a string without a character that is not white space
IsBlankText(s) == \A i \in 1..Len(s) : IsSpace(s[i])

\* C1: in every result analyzeImage returns, hasFields is true exactly when
\* amount is non-empty or merchant is non-empty, on the blank-result path as
\* on the extraction path.
C1_HasFieldsIffAmountOrMerchant ==
    pc = "resolved" =>
        (result.hasFields <=> (result.amount # << >> \/ result.merchant # << >>))

\* a result whose hasFields rests on the merchant alone
C1_Witness ==
    /\ pc = "resolved"
    /\ result.hasFields
    /\ result.amount = << >>
    /\ result.merchant # << >>

\* C2: for an empty or white-space-only OCR text the result has hasFields
\* false, amount and merchant empty, category Other, payment_method UPI and
\* the date the clock showed in the call.
C2_BlankTextGivesBlankFields ==
    (pc = "resolved" /\ IsBlankText(ocrText)) =>
        /\ result.hasFields = FALSE
        /\ result.amount = << >>
        /\ result.merchant = << >>
        /\ result.category = "Other"
        /\ result.payment_method = "UPI"
        /\ result.date = today

\* a text of white space only that went through the extractors
C2_Witness ==
    /\ pc = "resolved"
    /\ Len(ocrText) >= 3
    /\ IsBlankText(ocrText)
    /\ result.text = ocrText
    /\ result.hasFields = FALSE

\* ---- amounts, as the claims describe them --------------------------------

\* a number of the cued shape: 1-3 digits, groups of a separator and three
\* digits, a final separator and two digits
IsCuedNumber(w) ==
    \E n \in 1..3 : \E g \in 0..(Len(w) \div 4) :
        /\ Len(w) = n + 4 * g + 3
        /\ \A x \in 1..Len(w) :
              IF x > n /\ (x - n) % 4 = 1 THEN IsSep(w[x]) ELSE IsDigit(w[x])

\* what may stand between a cue and its number: white space with at most one
\* ':' or '=' in it
IsCueGap(w) ==
    /\ \A x \in 1..Len(w) : IsSpace(w[x]) \/ w[x] \in {":", "="}
    /\ Cardinality({x \in 1..Len(w) : w[x] \in {":", "="}}) <= 1

\* the positions at which a cue word stands, with the position after it
CueEnds(s) ==
    {ie \in (1..Len(s)) \X (2..(Len(s) + 1)) :
        \E c \in 1..Len(AmountCues) :
            /\ ie[2] = ie[1] + Len(AmountCues[c])
            /\ LiteralAtCI(s, ie[1], AmountCues[c])}

\* the cued amounts of a text: <<i, j, k>> for a cue at i whose number is
\* s[j..k]
CuedAmounts(s) ==
    UNION { { <<ie[1], j, k>> : k \in {k \in j..Len(s) :
                                          /\ IsCueGap(SubSeq(s, ie[2], j - 1))
                                          /\ IsCuedNumber(SubSeq(s, j, k))} }
            : <<ie, j>> \in {x \in CueEnds(s) \X (1..Len(s)) : x[2] >= x[1][2]} }

\* the last cued amount in reading order (the whole of its number)
LastCuedNumber(s) ==
    LET last == CHOOSE x \in CuedAmounts(s) : \A y \in CuedAmounts(s) :
                    y[1] < x[1] \/ (y[1] = x[1] /\ y[3] <= x[3])
    IN  SubSeq(s, last[2], last[3])

\* a number without its thousands separators: its digits and the separator
\* that stands before its last two digits
WithoutThousandsSeparators(w) ==
    LET keep == {x \in 1..Len(w) : IsDigit(w[x]) \/ x = Len(w) - 2}
        F[x \in 0..Len(w)] ==
            IF x = 0 THEN << >>
            ELSE IF x \in keep THEN Append(F[x - 1], w[x]) ELSE F[x - 1]
    IN  F[Len(w)]

\* a number without its commas
WithoutCommas(w) ==
    LET F[x \in 0..Len(w)] ==
            IF x = 0 THEN << >>
            ELSE IF w[x] # "," THEN Append(F[x - 1], w[x]) ELSE F[x - 1]
    IN  F[Len(w)]

\* C3: when the text holds a cued amount, the amount is the last cued number
\* in reading order with its thousands separators removed, whatever stands
\* before it.
C3_LastCuedAmountNormalized ==
    (pc = "resolved" /\ CuedAmounts(ocrText) # {}) =>
        result.amount = WithoutThousandsSeparators(LastCuedNumber(ocrText))

\* what the code does for C3: the last cued number wins, and its commas (not
\* its thousands separators) are removed
C3_LastCuedAmountWithoutCommas ==
    (pc = "resolved" /\ CuedAmounts(ocrText) # {}) =>
        result.amount = WithoutCommas(LastCuedNumber(ocrText))

\* the spec's example: an earlier cued number and then the total
C3_Witness ==
    /\ pc = "resolved"
    /\ textDetections = <<FragSubtotal, FragTotal>>
    /\ result.amount = <<"1","2","5","0",".","0","0">>

\* a decimal string: digits, at most one separator, and the separator, if
\* any, before the last two digits (a separator with more digits after it is
\* a thousands separator)
IsNormalizedAmount(a) ==
    /\ \A x \in 1..Len(a) : IsDigit(a[x]) \/ IsSep(a[x])
    /\ Cardinality({x \in 1..Len(a) : IsSep(a[x])}) <= 1
    /\ \A x \in 1..Len(a) : IsSep(a[x]) => x = Len(a) - 2

\* C4: the amount is "" or digits with at most one decimal separator and no
\* thousands separator, also for numbers that have '.' between their
\* thousands or ',' before their decimals.
C4_AmountIsNormalized ==
    pc = "resolved" => IsNormalizedAmount(result.amount)

\* the bare price tokens of a text: <<i, k>> for a token s[i..k] of 1-5
\* digits, a separator and two digits that no word character touches
BareTokens(s) ==
    {ik \in (1..Len(s)) \X (1..Len(s)) :
        LET n == ik[2] - ik[1] - 2
        IN  /\ n \in 1..5
            /\ DigitsAt(s, ik[1], n)
            /\ IsSep(s[ik[1] + n])
            /\ DigitsAt(s, ik[1] + n + 1, 2)
            /\ (ik[1] = 1 \/ ~IsWordChar(s[ik[1] - 1]))
            /\ (ik[2] = Len(s) \/ ~IsWordChar(s[ik[2] + 1]))}

\* the value, in hundredths, of a decimal string whose separator, if it has
\* one, stands before its last two digits
DecimalValue100(w) ==
    IF Len(w) >= 3 /\ IsSep(w[Len(w) - 2])
    THEN 100 * DigitsValue(SubSeq(w, 1, Len(w) - 3))
           + DigitsValue(SubSeq(w, Len(w) - 1, Len(w)))
    ELSE 100 * DigitsValue(w)

\* the largest value among the bare tokens
LargestBareValue100(s) ==
    SetMax({DecimalValue100(SubSeq(s, ik[1], ik[2])) : ik \in BareTokens(s)})

\* C5: without a cued amount the amount is the numerically largest bare price
\* token, normalized, and "" when the text holds no bare price token either.
C5_FallbackIsLargestBareToken ==
    (pc = "resolved" /\ CuedAmounts(ocrText) = {}) =>
        IF BareTokens(ocrText) = {} THEN result.amount = << >>
        ELSE /\ IsNormalizedAmount(result.amount)
             /\ Len(result.amount) > 0
             /\ DecimalValue100(result.amount) = LargestBareValue100(ocrText)

\* the spec's example: 45.00 and 120.50 give 120.50
C5_Witness ==
    /\ pc = "resolved"
    /\ textDetections = <<FragPrice45, FragPrice120>>
    /\ result.amount = FragPrice120

\* ---- dates ---------------------------------------------------------------

\* YYYY-MM-DD
IsIsoShape(d) ==
    /\ Len(d) = 10
    /\ \A x \in {1, 2, 3, 4, 6, 7, 9, 10} : IsDigit(d[x])
    /\ d[5] = "-"
    /\ d[8] = "-"

IsoYear(d) == DigitsValue(SubSeq(d, 1, 4))

IsoMonth(d) == DigitsValue(SubSeq(d, 6, 7))

IsoDay(d) == DigitsValue(SubSeq(d, 9, 10))

IsLeapYear(y) == (y % 4 = 0 /\ y % 100 # 0) \/ y % 400 = 0

DaysInMonth(y, m) ==
    IF m = 2 THEN (IF IsLeapYear(y) THEN 29 ELSE 28)
    ELSE IF m \in {4, 6, 9, 11} THEN 30
    ELSE 31

IsCalendarDate(d) ==
    /\ IsIsoShape(d)
    /\ IsoMonth(d) \in 1..12
    /\ IsoDay(d) >= 1
    /\ IsoDay(d) <= DaysInMonth(IsoYear(d), IsoMonth(d))

\* C6: the date of every result is a string YYYY-MM-DD that denotes a
\* calendar date, whether it was matched in the text or is the current date.
C6_DateIsCalendarDate ==
    pc = "resolved" => IsCalendarDate(result.date)

\* a date that was matched in the text and is a calendar date
C6_Witness ==
    /\ pc = "resolved"
    /\ extractDate(ocrText) # null
    /\ result.date # today
    /\ IsCalendarDate(result.date)

\* the conversion C7 describes, for a match m of dateRegex and the date d
\* that was returned
IsConvertedDate(m, d) ==
    /\ (m.found /\ m.dayFirst /\ Len(m.groups[3]) \in {2, 4}) =>
          /\ IsIsoShape(d)
          /\ IsoDay(d) = DigitsValue(m.groups[1])
          /\ IsoMonth(d) = DigitsValue(m.groups[2])
          /\ IsoYear(d) = IF Len(m.groups[3]) = 2
                          THEN 2000 + DigitsValue(m.groups[3])
                          ELSE DigitsValue(m.groups[3])
    /\ (m.found /\ ~m.dayFirst) =>
          /\ IsIsoShape(d)
          /\ IsoYear(d) = DigitsValue(m.groups[1])
          /\ IsoMonth(d) = DigitsValue(m.groups[2])
          /\ IsoDay(d) = DigitsValue(m.groups[3])

\* C7: a match D[D]/M[M]/YY[YY] is read as day-month-year and returned as
\* YYYY-MM-DD, zero-padded, a 2-digit year prefixed with 20; a match
\* YYYY-M[M]-D[D] is read as year-month-day; "Date: 07/03/2024" gives
\* 2024-03-07 and the text 2024-03-07 is returned unchanged.
C7_DateConversion ==
    pc = "resolved" =>
        /\ IsConvertedDate(matchDate(ocrText, 1), result.date)
        /\ ocrText = FragDate => result.date = FragIsoDate
        /\ ocrText = FragIsoDate => result.date = ocrText

\* a day-first date with one-digit day and month and a two-digit year
C7_Witness ==
    /\ pc = "resolved"
    /\ ocrText = FragShortDate
    /\ result.date = <<"2","0","2","3","-","0","6","-","0","5">>

\* a string of three digit groups with [/-] between them, the groups having
\* lengths in A, B and C
IsDateShaped(w, A, B, C) ==
    \E a \in A, b \in B, c \in C :
        /\ Len(w) = a + b + c + 2
        /\ \A x \in 1..Len(w) :
              IF x = a + 1 \/ x = a + b + 2 THEN IsDateSep(w[x]) ELSE IsDigit(w[x])

\* the positions at which a date-shaped substring of either shape starts
\* (a date-shaped string has 6 to 10 characters and starts with a digit)
DateShapedStarts(s) ==
    {i \in 1..Len(s) :
        /\ IsDigit(s[i])
        /\ \E k \in (i + 5)..(i + 9) :
              /\ k <= Len(s)
              /\ \/ IsDateShaped(SubSeq(s, i, k), 1..2, 1..2, 2..4)
                 \/ IsDateShaped(SubSeq(s, i, k), {4}, 1..2, 1..2)}

\* the date derived from the date-shaped substring that starts at i
DateDerivedAt(s, i) ==
    dateOf(matchDateAt(s, i, DayFirstAt(s, i), YearFirstAt(s, i)))

\* the dates C8 allows, given where date-shaped substrings start
IsLeftmostDate(s, starts, d, now) ==
    IF starts = {} THEN extractDate(s) = null /\ d = now
    ELSE d = DateDerivedAt(s, SetMin(starts))

\* C8: the date is derived from the date-shaped substring that starts first
\* in the text, never from a later one; without one extractDate returns null
\* and the current date is used.
C8_LeftmostDateWins ==
    pc = "resolved" =>
        IsLeftmostDate(ocrText, DateShapedStarts(ocrText), result.date, today)

\* two dates in the text, the later one year-first and different
C8_Witness ==
    /\ pc = "resolved"
    /\ textDetections = <<FragShortDate, FragIsoDate>>
    /\ result.date = <<"2","0","2","3","-","0","6","-","0","5">>
    /\ result.date # extractDate(FragIsoDate)

\* ---- categories ----------------------------------------------------------

\* C9: the category of every result is a non-empty member of
\* FORM_CONFIG.categories, the options the category selector offers.
C9_CategoryIsFormOption ==
    pc = "resolved" => (result.category # "" /\ result.category \in FormCategories)

\* a category that a keyword, not the default, decided
C9_Witness ==
    /\ pc = "resolved"
    /\ result.category \in FormCategories
    /\ result.category # "Other"

\* the order C10 states
CategoryOrder == <<"FOOD", "TRAVEL", "GROCERY", "HOTEL", "ROOM STAY">>

\* a keyword of category c occurs in the lower-cased text t
HasKeywordOf(t, c) ==
    \E k \in 1..Len(categories) :
        /\ categories[k].cat = c
        /\ \E w \in 1..Len(categories[k].keywords) :
              includes(t, categories[k].keywords[w])

\* the category C10 describes for the lower-cased text t
IsFirstCategoryInOrder(t, c) ==
    /\ (\A k \in 1..Len(CategoryOrder) : ~HasKeywordOf(t, CategoryOrder[k]))
          => c = "Other"
    /\ \A k \in 1..Len(CategoryOrder) :
          (/\ HasKeywordOf(t, CategoryOrder[k])
           /\ \A j \in 1..(k - 1) : ~HasKeywordOf(t, CategoryOrder[j]))
          => c = CategoryOrder[k]
    /\ (includes(t, FragZomato) /\ includes(t, toLowerCase(FragUber)))
          => c = "FOOD"

\* C10: the category is the first of FOOD, TRAVEL, GROCERY, HOTEL, ROOM STAY
\* one of whose keywords occurs in the lower-cased text, Other when none
\* occurs; zomato and uber together give FOOD wherever they stand.
C10_CategoryPrecedence ==
    pc = "resolved" =>
        IsFirstCategoryInOrder(toLowerCase(ocrText), result.category)

\* uber before zomato in the text, FOOD all the same
C10_Witness ==
    /\ pc = "resolved"
    /\ textDetections = <<FragUber, FragZomato>>
    /\ result.category = "FOOD"

\* ---- payment methods -----------------------------------------------------

\* one of the words occurs in the lower-cased text t
Mentions(t, words) == \E w \in words : includes(t, w)

UpiWords == { <<"u","p","i">>, <<"g","p","a","y">>, <<"p","h","o","n","e","p","e">> }

CashWords == { <<"c","a","s","h">> }

CardWords == { <<"c","a","r","d">>, <<"v","i","s","a">>,
               <<"m","a","s","t","e","r","c","a","r","d">>,
               <<"s","w","i","p","e">> }

\* the payment method C11 describes for the lower-cased text t
IsClaimedPaymentMethod(t, pm) ==
    /\ pm \in {"UPI", "CASH", "CARD"}
    /\ Mentions(t, UpiWords) => pm = "UPI"
    /\ (~Mentions(t, UpiWords) /\ Mentions(t, CashWords)) => pm = "CASH"
    /\ (~Mentions(t, UpiWords) /\ ~Mentions(t, CashWords) /\ Mentions(t, CardWords))
          => pm = "CARD"
    /\ (~Mentions(t, UpiWords) /\ ~Mentions(t, CashWords) /\ ~Mentions(t, CardWords))
          => pm = "UPI"

\* C11: payment_method is UPI when the lower-cased text mentions upi, gpay or
\* phonepe, otherwise CASH when it mentions cash, otherwise CARD when it
\* mentions card, visa, mastercard or swipe, otherwise UPI; it is always one
\* of the three.
C11_PaymentMethodPrecedence ==
    pc = "resolved" =>
        IsClaimedPaymentMethod(toLowerCase(ocrText), result.payment_method)

\* a text that mentions cash before upi, UPI all the same
C11_Witness ==
    /\ pc = "resolved"
    /\ textDetections = <<FragCashUpi>>
    /\ result.payment_method = "UPI"

\* ---- merchants -----------------------------------------------------------

\* w without the white space at its ends
RECURSIVE Trimmed(_)
Trimmed(w) ==
    IF w = << >> THEN w
    ELSE IF IsSpace(w[1]) THEN Trimmed(Tail(w))
    ELSE IF IsSpace(w[Len(w)]) THEN Trimmed(SubSeq(w, 1, Len(w) - 1))
    ELSE w

\* the lines of s from position p on, in order: each trimmed, those shorter
\* than 3 characters left out
RECURSIVE NonTrivialLines(_, _)
NonTrivialLines(s, p) ==
    IF p > Len(s) + 1 THEN << >>
    ELSE LET q    == IF \E i \in p..Len(s) : s[i] = "\n"
                     THEN SetMin({i \in p..Len(s) : s[i] = "\n"})
                     ELSE Len(s) + 1
             line == Trimmed(SubSeq(s, p, q - 1))
         IN  (IF Len(line) >= 3 THEN <<line>> ELSE << >>) \o NonTrivialLines(s, q + 1)

\* the line contains the name of a known merchant, in any case
HasMerchantKeyword(line) ==
    \E k \in 1..Len(commonMerchants) :
        includes(toLowerCase(line), toLowerCase(commonMerchants[k]))

\* the line contains a run of 10 digits
HasTenDigits(line) ==
    \E i \in 0..(Len(line) - 10) : \A j \in 1..10 : IsDigit(line[i + j])

\* the line contains a run of 10 letters d
HasTenLettersD(line) ==
    \E i \in 0..(Len(line) - 10) : \A j \in 1..10 : line[i + j] = "d"

\* m is the first of the lines whose index is in preferred, the first line
\* when preferred is empty, "" when there is no line
IsPreferredOrFirst(lines, preferred, m) ==
    IF Len(lines) = 0 THEN m = << >>
    ELSE IF preferred = {} THEN m = lines[1]
    ELSE m = lines[SetMin(preferred)]

\* the indices, among the first 5 lines, of the lines with a merchant keyword
KeywordLines(lines) ==
    {i \in 1..Len(lines) : i <= 5 /\ HasMerchantKeyword(lines[i])}

\* C12: the merchant is the first of the first 5 non-trivial lines that
\* contains a known-merchant keyword, the first non-trivial line when none of
\* them does, "" when no line remains.
C12_MerchantSelection ==
    pc = "resolved" =>
        IsPreferredOrFirst(NonTrivialLines(ocrText, 1),
                           KeywordLines(NonTrivialLines(ocrText, 1)),
                           result.merchant)

\* what the code does for C12: the same selection among the keyword lines
\* that hold no run of 10 letters d
C12_MerchantSelectionWithoutLetterRuns ==
    pc = "resolved" =>
        IsPreferredOrFirst(NonTrivialLines(ocrText, 1),
                           {i \in KeywordLines(NonTrivialLines(ocrText, 1)) :
                               ~HasTenLettersD(NonTrivialLines(ocrText, 1)[i])},
                           result.merchant)

\* a keyword on the fifth line wins over the first line
C12_Witness ==
    /\ pc = "resolved"
    /\ textDetections = <<FragFourLines, FragOlaCabs>>
    /\ result.merchant = FragOlaCabs

\* C13: a line among the first 5 non-trivial lines that contains a
\* known-merchant keyword and a run of 10 digits is not selected by the
\* known-merchant preference; the first keyword line without such a run is.
C13_PhoneNumberExclusion ==
    pc = "resolved" =>
        IsPreferredOrFirst(NonTrivialLines(ocrText, 1),
                           {i \in KeywordLines(NonTrivialLines(ocrText, 1)) :
                               ~HasTenDigits(NonTrivialLines(ocrText, 1)[i])},
                           result.merchant)

\* the header lines C14 names as being on the ignore list
HeaderLines == {FragReceipt}

\* the indices of the lines that are no header lines
BodyLines(lines) == {i \in 1..Len(lines) : lines[i] \notin HeaderLines}

\* m is the first line that is no header line
IsFirstBodyLine(lines, m) == m = lines[SetMin(BodyLines(lines))]

\* C14: for a text without a known-merchant keyword whose first non-trivial
\* line is the header line RECEIPT, the merchant is the first non-trivial line
\* that is no header line: RECEIPT, then Big Bazaar Store, gives Big Bazaar
\* Store.
C14_HeaderLinesSkipped ==
    (/\ pc = "resolved"
     /\ KeywordLines(NonTrivialLines(ocrText, 1)) = {}
     /\ BodyLines(NonTrivialLines(ocrText, 1)) # {}) =>
        /\ IsFirstBodyLine(NonTrivialLines(ocrText, 1), result.merchant)
        /\ textDetections = <<FragReceipt, FragStore>> => result.merchant = FragStore

\* ---- invoice numbers -----------------------------------------------------

\* the cue words that stand at position p, by their index in InvoiceCues
CuesAt(s, p) == {c \in 1..Len(InvoiceCues) : LiteralAtCI(s, p, InvoiceCues[c])}

\* the cue token at position p: the longest cue word that stands there
CueTokenAt(s, p) ==
    CHOOSE c \in CuesAt(s, p) :
        \A d \in CuesAt(s, p) : Len(InvoiceCues[d]) <= Len(InvoiceCues[c])

\* the reference code that follows the cue token at position p: <<from, to>>,
\* << >> when no cue token stands there or none follows it
ReferenceAfterCueAt(s, p) ==
    IF CuesAt(s, p) = {} THEN << >>
    ELSE LET ws == {w \in 1..Len(InvoiceWords) :
                       InvoiceMatchWith(s, p, CueTokenAt(s, p), w) # << >>}
         IN  IF ws = {} THEN << >>
             ELSE InvoiceMatchWith(s, p, CueTokenAt(s, p), SetMin(ws))

\* the reference code that follows the first cue token, from position p on,
\* that has one; "" when there is none
RECURSIVE FirstReference(_, _)
FirstReference(s, p) ==
    IF p > Len(s) THEN << >>
    ELSE IF ReferenceAfterCueAt(s, p) # << >>
    THEN SubSeq(s, ReferenceAfterCueAt(s, p)[1], ReferenceAfterCueAt(s, p)[2])
    ELSE FirstReference(s, p + 1)

\* C15: invoice_number is the reference code of 4 or more characters that
\* follows the first cue token (INV, INVOICE, BILL, TXN, TRANSACTION, RECEIPT,
\* REF), an optional NO/ID/NUMBER, an optional ':', '#' or '=' and optional
\* white space, for the longer cues too: INVOICE NO: AB-1234 gives AB-1234;
\* without such a reference it is "".
C15_InvoiceNumberIsReferenceCode ==
    pc = "resolved" =>
        /\ result.invoice_number = FirstReference(ocrText, 1)
        /\ ocrText = FragInvoiceNo =>
               result.invoice_number = <<"A","B","-","1","2","3","4">>

\* C16: invoice_number is "" or a string of at least 4 characters each of
\* which is an upper-case letter, a digit, '/' or '-'.
C16_InvoiceNumberCharacters ==
    pc = "resolved" =>
        \/ result.invoice_number = << >>
        \/ /\ Len(result.invoice_number) >= 4
           /\ \A x \in 1..Len(result.invoice_number) :
                  \/ result.invoice_number[x] \in UpperSet
                  \/ IsDigit(result.invoice_number[x])
                  \/ result.invoice_number[x] \in {"/", "-"}

\* ---- failures ------------------------------------------------------------

\* C17: when Ocr.detectText resolves without a text detection, analyzeImage
\* does not throw: it returns the blank ReceiptFields (strings empty, date
\* today, category Other, payment_method UPI, hasFields false).
C17_NoDetectionsGiveBlankResult ==
    [][(OcrResolves(<< >>) \/ OcrResolvesRobust(<< >>)) =>
          (pc' = "resolved" /\ result' = blankResult(today))]_vars

\* the labels extractCategory can return
CategoryLabels == {categories[k].cat : k \in 1..Len(categories)} \cup {"Other"}

\* C18: for every text that OCR delivered, no extractor raises: the call
\* returns a result, and each field holds a value of its extractor (a string,
\* a label), the empty or default one when nothing matched.
C18_ExtractorsNeverRaise ==
    textDetections # << >> =>
        /\ pc \in {"resolved", "reanalyzed"}
        /\ error = "none"
        /\ result.amount # TypeError
        /\ result.date # null
        /\ result.category \in CategoryLabels
        /\ result.payment_method \in {"UPI", "CASH", "CARD"}

\* a text in which nothing matches, and its empty and default values
C18_Witness ==
    /\ pc = "resolved"
    /\ textDetections = <<FragPadded>>
    /\ result.amount = << >>
    /\ result.merchant = << >>
    /\ result.invoice_number = << >>
    /\ result.category = "Other"
    /\ result.payment_method = "UPI"
    /\ result.date = today

\* ---- two parses of one text ----------------------------------------------

\* C19: two parses of the same OCR text return results that are identical
\* field for field; no field depends on anything but the text.
C19_ReparseIdentical ==
    [][\A now \in Dates :
          Reanalyze(now) => (pc' = "reanalyzed" /\ result' = result)]_vars

\* the fields that two results share, the date apart
SameButDate(r, q) ==
    /\ q.text = r.text
    /\ q.amount = r.amount
    /\ q.merchant = r.merchant
    /\ q.category = r.category
    /\ q.invoice_number = r.invoice_number
    /\ q.payment_method = r.payment_method
    /\ q.hasFields = r.hasFields

\* C19 as the code has it: two parses of the same OCR text agree in text,
\* amount, merchant, category, invoice_number, payment_method and hasFields,
\* and in the date when the text holds a date; when it holds none, the date
\* of each parse is the current date of that parse.
C19_ReparseIdenticalButDefaultDate ==
    [][\A now \in Dates :
          Reanalyze(now) =>
              /\ pc' = "reanalyzed"
              /\ SameButDate(result, result')
              /\ extractDate(ocrText) # null => result'.date = result.date
              /\ extractDate(ocrText) = null => result'.date = now]_vars

\* a text without a date that was parsed a second time
C19_Witness ==
    /\ pc = "reanalyzed"
    /\ textDetections = <<FragZomato, FragStore>>
    /\ extractDate(ocrText) = null
    /\ result.date = today

\* ---- the argument --------------------------------------------------------

\* C20: a null or undefined argument is rejected before any OCR call with a
\* failure of its own, which no other input and no other cause produces; an
\* empty input is not rejected, and an empty OCR outcome takes the
\* blank-result path.
C20_NullRejectedEmptyAccepted ==
    [][/\ \A src \in ImageSrcs :
             Call(src) =>
                 IF src.kind \in {"null", "undefined"}
                 THEN pc' = "rejected" /\ error' = "source empty"
                 ELSE ~(pc' = "rejected" /\ error' = "source empty")
       /\ pc = "awaitOcr" => error' # "source empty"
       /\ OcrResolves(<< >>) => (pc' = "resolved" /\ result' = blankResult(today))
      ]_vars

(***************************************************************************)
(* Properties of the capture flow                                          *)
(***************************************************************************)
\* C21: when analyzeImage resolves with the blank result (text, amount and
\* merchant empty, hasFields false), the capture flow does not enter the
\* 'error' step: the step it enters is the form, or the warning from which
\* the form is reached, so that the user can enter the fields by hand.
C21_BlankResultLeadsToForm ==
    [][\A h \in Awaiting :
          analyzeImageResolves(h, blankResult(today))
             => step' \in {"form", "format_warning"}
      ]_vars

\* C22: once analyzeImage has resolved, the step is 'form' when the result
\* has fields and 'format_warning' when it has none; the step goes from
\* 'format_warning' to 'form' only by the button "Fill Manually", and it
\* leaves 'format_warning' only for 'form' or 'select'.
C22_RoutingByHasFields ==
    [][/\ \A h \in Awaiting : \A r \in CaptureResults :
              analyzeImageResolves2(h, r)
                 => step' = (IF r.hasFields THEN "form" ELSE "format_warning")
       /\ (step = "format_warning" /\ step' = "form") => fillManually
       /\ step = "format_warning"
             => step' \in {"format_warning", "form", "select"}
      ]_vars

\* the handlers of the camera and of the gallery that have called
\* Camera.getPhoto
PastPermissionCheck ==
    {h \in Awaiting : h.kind \in {"camera", "photos"}
                       /\ h.at \in {"getPhoto", "analyzeImage"}}

\* C23: a handler of the camera or of the gallery calls Camera.getPhoto
\* only when the permission check of the same invocation has found its
\* permission 'granted' or the request has obtained 'granted'; when the
\* request is refused, the invocation ends without getPhoto and without
\* OCR, and it leaves the flow in step 'error' with errorType 'permission'.
C23_PermissionGating ==
    /\ [](\A h \in PastPermissionCheck : h.found = "granted")
    /\ [][\A h \in Awaiting : \A outcome \in {"limited", "denied"} :
             requestPermissionsResolves(h, outcome)
                => /\ step' = "error"
                   /\ errorType' = "permission"
                   /\ handlers' = Finish(h)
         ]_vars

\* one invocation has been refused while another, whose permission is
\* granted, awaits the photo
C23_Witness ==
    /\ step = "error"
    /\ errorType = "permission"
    /\ errorMsg = "Missing Permissions!"
    /\ \E h \in PastPermissionCheck : h.at = "getPhoto"

\* C24: the step becomes 'success' only when submitToGoogleForm has
\* resolved with true for the formData the form holds; when it resolves
\* with false, the step is still 'form', formData is as it was and
\* isSubmitting is false again.
C24_SubmissionOutcome ==
    [][/\ (step # "success" /\ step' = "success")
             => \E h \in Awaiting : submitResolves(h, TRUE) /\ h.data = formData
       /\ \A h \in Awaiting :
             submitResolves(h, FALSE)
                => step' = "form" /\ formData' = formData /\ ~isSubmitting'
      ]_vars

\* the messages of the catch block of startProcessing
ProcessingFailures == AnalyzeFailures \cup {"OCR returned no usable text."}

\* C25: in step 'error', errorType is the type of the failure whose message
\* the error screen shows: 'permission' only for a refused permission,
\* 'generic' only for a failure of the analysis; no errorType of an earlier
\* failure is left standing when the camera, the gallery, the PDF or OCR
\* fails later.
C25_ErrorTypeOfThisFailure ==
    step = "error"
       => /\ errorType = "permission" => errorMsg = "Missing Permissions!"
          /\ errorType = "generic" => errorMsg \in ProcessingFailures

\* what the user does in the form step, with the answer to the submission
FormActions ==
    \/ retake
    \/ \E value \in TypedAmounts : onChangeAmount(value)
    \/ handleSubmit
    \/ \E h \in Awaiting : \E success \in SubmitOutcomes : submitResolves(h, success)

\* C26: once the step is 'form', step and formData change only by what the
\* user does in the form: the continuation of a capture handler that was
\* started while the step was 'select' does not set the step to
\* 'processing' or 'error' and does not overwrite formData.
C26_FormKeptFromLateHandlers ==
    [][step = "form" => (FormActions \/ UNCHANGED <<step, formData>>)]_vars

\* the calls of submitToGoogleForm that have not resolved yet
Submissions == {h \in Awaiting : h.at = "submitToGoogleForm"}

\* how many of them there are
Outstanding == BagCardinality([h \in Submissions |-> CopiesIn(h, handlers)])

C28_PhotosPolicyConsistent ==
    [][\A h \in Awaiting :
          (h.kind = "photos" /\ ~needPhotos(permissions))
             => /\ checkPermissionsResolves(h)
                   => handlers' = Replace(h, Handler("photos", "getPhoto", permissions.photos, NoData))
                /\ \A outcome \in {"granted", "limited", "denied"} :
                      requestPermissionsResolves(h, outcome)
                         => ~(step' = "error" /\ errorType' = "permission")
      ]_vars

(***************************************************************************)
(* Properties of the two strategies of extractAmount                       *)
(***************************************************************************)
\* the position after each match of amountRegex in s, searched from p
RECURSIVE cuedEnds(_, _)
cuedEnds(s, p) ==
    IF p > Len(s) THEN << >>
    ELSE LET m == AmountMatchAt(s, p)
         IN  IF m = << >> THEN cuedEnds(s, p + 1)
             ELSE <<m[2] + 1>> \o cuedEnds(s, m[2] + 1)

\* no digit stands at position p of s
NoDigitAt(s, p) == p > Len(s) \/ ~IsDigit(s[p])

LastOf(seq) == seq[Len(seq)]

\* C29: when the cued strategy returns an amount, the number it matched is
\* a whole numeric token of the text: no further digit follows it, so the
\* amount is not the beginning of a longer number.
C29_CuedAmountIsWholeToken ==
    (pc = "resolved" /\ cuedEnds(ocrText, 1) # << >>)
       => NoDigitAt(ocrText, LastOf(cuedEnds(ocrText, 1)))

\* C30: for a text without a cued amount, the fallback that reduces the
\* matches to the first strict maximum and strips the commas afterwards
\* returns what the fallback returns that strips the commas first, sorts by
\* descending value and takes the first element; this includes prices of
\* equal value and prices whose separator is ','.
C30_FallbacksEquivalent ==
    (pc = "resolved" /\ matchAllAmount(ocrText, 1) = << >>)
       => result.amount = extractAmountSorted(ocrText)

\* '1,50' and '150.00' are equal in value once the comma is stripped
C30_Witness ==
    /\ pc = "resolved"
    /\ textDetections = <<FragPriceComma, FragPrice150>>
    /\ result.amount = <<"1","5","0">>
    /\ extractAmountSorted(ocrText) = <<"1","5","0">>

====
